---------------------------- MODULE Spec2Model ----------------------------
(***************************************************************************)
(* Model of src/codeblocks-source/src/src/app.cpp: the application         *)
(* bootstrap of the IDE (CodeBlocksApp::OnInit, OnRun, OnExit), its        *)
(* single-instance / IPC layer (DDEServer, DDEConnection, DDEClient), the  *)
(* command-line handling (ParseCmdLine, LoadDelayedFiles) and the batch    *)
(* build orchestration (BatchJob, OnBatchBuildDone).                       *)
(*                                                                         *)
(* Strings (wxString) are sequences of one-character strings.  Positions   *)
(* are 0-based as in the C++ code; npos is -1.                             *)
(***************************************************************************)
EXTENDS Integers, Sequences, FiniteSets, TLC

(***************************************************************************)
(* wxString primitives used by the code                                    *)
(***************************************************************************)
npos == -1

StartsWith(s, p) == Len(s) >= Len(p) /\ SubSeq(s, 1, Len(p)) = p

MatchAt(s, p, i) == i + Len(p) <= Len(s) /\ SubSeq(s, i + 1, i + Len(p)) = p

RECURSIVE find(_, _, _)
find(s, p, start) ==
    IF start + Len(p) > Len(s) THEN npos
    ELSE IF MatchAt(s, p, start) THEN start
    ELSE find(s, p, start + 1)

Min(a, b) == IF a < b THEN a ELSE b

substr(s, pos, n) == SubSeq(s, pos + 1, Min(pos + n, Len(s)))

RECURSIVE Replace(_, _, _)
Replace(s, old, new) ==
    IF Len(s) < Len(old) \/ s = <<>> THEN s
    ELSE IF StartsWith(s, old)
         THEN new \o Replace(SubSeq(s, Len(old) + 1, Len(s)), old, new)
         ELSE <<Head(s)>> \o Replace(Tail(s), old, new)

(***************************************************************************)
(* The IPC wire format                                                     *)
(***************************************************************************)
BS == "\\"
DQ == "\""
SP == " "

TagCmdLine == <<"[", "C", "m", "d", "L", "i", "n", "e", "(", "{">>
TagCWD     == <<"}", ")", "C", "W", "D", "(", "{">>
TagEnd     == <<"}", ")", "]">>
TagRaise   == <<"[", "R", "a", "i", "s", "e", "]">>
TagOpen    == <<"[", "O", "p", "e", "n", "(", DQ>>
TagOpenLine == <<"[", "O", "p", "e", "n", "L", "i", "n", "e", "(", DQ>>
TagIfExec  == <<"[", "I", "f", "E", "x", "e", "c", "_", "O", "p", "e", "n", "(", DQ>>
TagClose   == <<DQ, ")", "]">>

\* cbCountOf("[CmdLine({") - 1 and cbCountOf("})CWD({") - 1
coundCmdLind == Len(TagCmdLine)
countCWD     == Len(TagCWD)

\* OnInit: for (i = 1; i < argc; ++i) cmdLine += wxString(argv[i]) + ' ';
RECURSIVE JoinArgs(_)
JoinArgs(args) ==
    IF args = <<>> THEN <<>>
    ELSE Head(args) \o <<SP>> \o JoinArgs(Tail(args))

\* A sender that escapes the openings only.
EscapeOpeningsOnly(cmdLine) == Replace(cmdLine, <<"(">>, <<BS, "(">>)

\* OnInit: cmdLine.Replace("(", "\\("); cmdLine.Replace(")", "\\)");
EscapeCmdLine(cmdLine) ==
    Replace(Replace(cmdLine, <<"(">>, <<BS, "(">>), <<")">>, <<BS, ")">>)

\* OnInit: "[CmdLine({" + cmdLine + "})CWD({" + wxGetCwd() + "})]"
CmdLineMessage(cmdLine, cwd) ==
    TagCmdLine \o EscapeCmdLine(cmdLine) \o TagCWD \o cwd \o TagEnd

\* OnExecute: x.Replace("\\)", ")"); x.Replace("\\(", "(");
Unescape(x) == Replace(Replace(x, <<BS, ")">>, <<")">>), <<BS, "(">>, <<"(">>)

\* OnExecute: the cmdLine extracted from a [CmdLine({ message
ExecCmdLine(strData) ==
    LET posCwd == find(strData, TagCWD, 0)
    IN  IF posCwd = npos THEN <<>>
        ELSE Unescape(substr(strData, coundCmdLind, posCwd - coundCmdLind))

\* An extraction that takes the rest of the message for the cwd when the
\* terminator is missing.
ExecCwdToTheEnd(strData) ==
    LET posCwd == find(strData, TagCWD, 0)
    IN  IF posCwd = npos THEN <<>>
        ELSE Unescape(substr(strData, posCwd + countCWD, Len(strData)))

\* OnExecute: the cwd extracted from a [CmdLine({ message
ExecCwd(strData) ==
    LET posCwd == find(strData, TagCWD, 0)
    IN  IF posCwd = npos THEN <<>>
        ELSE LET posEnd == find(strData, TagEnd, posCwd + countCWD)
             IN  IF posEnd = npos THEN <<>>
                 ELSE Unescape(substr(strData, posCwd + countCWD,
                                      posEnd - (posCwd + countCWD)))

(***************************************************************************)
(* ParseCmdLine: parser.SetCmdLine(CmdLineString) splits the string into   *)
(* arguments: blanks separate arguments outside double quotes, a double    *)
(* quote not preceded by a backslash toggles quoting and is dropped.       *)
(***************************************************************************)
RECURSIVE SplitArgs(_, _, _, _, _, _)
SplitArgs(s, i, arg, inArg, isInsideQuotes, lastBS) ==
    IF i > Len(s) THEN (IF inArg THEN <<arg>> ELSE <<>>)
    ELSE LET ch == s[i] IN
         IF ~inArg
         THEN IF ch = SP
              THEN SplitArgs(s, i + 1, <<>>, FALSE, FALSE, FALSE)
              ELSE SplitArgs(s, i, <<>>, TRUE, FALSE, FALSE)
         ELSE IF ch = DQ /\ ~lastBS
              THEN SplitArgs(s, i + 1, arg, TRUE, ~isInsideQuotes, lastBS)
         ELSE IF ch # DQ /\ ~isInsideQuotes /\ ch = SP
              THEN <<arg>> \o SplitArgs(s, i + 1, <<>>, FALSE, FALSE, FALSE)
         ELSE SplitArgs(s, i + 1, Append(arg, ch), TRUE, isInsideQuotes,
                        ~lastBS /\ ch = BS)

ConvertStringToArgs(cmdLine) == SplitArgs(cmdLine, 1, <<>>, FALSE, FALSE, FALSE)

(***************************************************************************)
(* The command-line parser as ParseCmdLine uses it: long switches          *)
(* "--name", long options "--name=value", everything else a parameter.     *)
(***************************************************************************)
OptPrefix == <<"-", "-">>

\* the names of the switches and options of cmdLineDesc that ParseCmdLine reads
OptName ==
    [help |-> <<"h", "e", "l", "p">>,
     build |-> <<"b", "u", "i", "l", "d">>,
     rebuild |-> <<"r", "e", "b", "u", "i", "l", "d">>,
     clean |-> <<"c", "l", "e", "a", "n">>,
     target |-> <<"t", "a", "r", "g", "e", "t">>,
     script |-> <<"s", "c", "r", "i", "p", "t">>,
     file |-> <<"f", "i", "l", "e">>,
     prefix |-> <<"p", "r", "e", "f", "i", "x">>,
     userdata |->
        <<"u", "s", "e", "r", "-", "d", "a", "t", "a", "-", "d", "i", "r">>,
     nodde |-> <<"n", "o", "-", "d", "d", "e">>,
     nosplash |->
        <<"n", "o", "-", "s", "p", "l", "a", "s", "h", "-", "s", "c", "r", "e", "e", "n">>,
     safemode |-> <<"s", "a", "f", "e", "-", "m", "o", "d", "e">>,
     multiple |->
        <<"m", "u", "l", "t", "i", "p", "l", "e", "-", "i", "n", "s", "t", "a", "n", "c", "e">>,
     notify |->
        <<"b", "a", "t", "c", "h", "-", "b", "u", "i", "l", "d", "-", "n", "o", "t", "i", "f", "y">>,
     nowinclose |->
        <<"n", "o", "-", "b", "a", "t", "c", "h", "-", "w", "i", "n", "d", "o", "w", "-", "c", "l", "o", "s", "e">>,
     dbgattach |-> <<"d", "b", "g", "-", "a", "t", "t", "a", "c", "h">>,
     dbgconfig |-> <<"d", "b", "g", "-", "c", "o", "n", "f", "i", "g">>,
     personality |-> <<"p", "e", "r", "s", "o", "n", "a", "l", "i", "t", "y">>,
     profile |-> <<"p", "r", "o", "f", "i", "l", "e">>,
     nolog |-> <<"n", "o", "-", "l", "o", "g">>,
     logtofile |-> <<"l", "o", "g", "-", "t", "o", "-", "f", "i", "l", "e">>]

\* parser.Found(name) for a switch
Found(args, name) == \E i \in 1..Len(args) : args[i] = OptPrefix \o name

OptionHead(name) == OptPrefix \o name \o <<"=">>

HasValue(args, name) == \E i \in 1..Len(args) : StartsWith(args[i], OptionHead(name))

\* parser.Found(name, &var): var keeps its old value when the option is absent
FoundValue(args, name, old) ==
    IF HasValue(args, name)
    THEN LET i == CHOOSE k \in 1..Len(args) :
                      /\ StartsWith(args[k], OptionHead(name))
                      /\ \A j \in 1..(k - 1) : ~StartsWith(args[j], OptionHead(name))
         IN  SubSeq(args[i], Len(OptionHead(name)) + 1, Len(args[i]))
    ELSE old

IsParam(arg) == ~StartsWith(arg, <<"-">>)

\* parser.GetParam(0 .. GetParamCount()-1)
Params(args) == SelectSeq(args, IsParam)

(***************************************************************************)
(* File names                                                              *)
(***************************************************************************)
EndsWith(s, p) == Len(s) >= Len(p) /\ SubSeq(s, Len(s) - Len(p) + 1, Len(s)) = p

ExtProject   == <<".", "c", "b", "p">>
ExtWorkspace == <<".", "w", "o", "r", "k", "s", "p", "a", "c", "e">>

\* FileTypeOf(strParam), as far as ParseCmdLine distinguishes its results
FileTypeOf(name) ==
    IF EndsWith(name, ExtProject) THEN "ftCodeBlocksProject"
    ELSE IF EndsWith(name, ExtWorkspace) THEN "ftCodeBlocksWorkspace"
    ELSE "ftOther"

\* wxGetCwd() of the modelled process
wxGetCwd == <<"/", "d">>

IsRelative(p) == ~StartsWith(p, <<"/">>)

\* wxFileName::MakeAbsolute(cwd) / Normalize(..., cwd): an empty cwd means the
\* working directory of the process itself
MakeAbsolute(p, cwd) ==
    IF IsRelative(p)
    THEN (IF cwd = <<>> THEN wxGetCwd ELSE cwd) \o <<"/">> \o p
    ELSE p

\* the files wxFile::Exists finds
ExistingFiles == {<<"/", "d", "/", "f">>, <<"/", "d", "/", "g">>}

\* character codes, for the ordering of std::set<wxString>
Ascii == <<SP, DQ, "(", ")", "-", ".", "/", "0", "1", "2", "3", "4", "5", "6", "7",
           "8", "9", ":", "=", "A", "C", "D", "F", "S", "K", "T", "W", "[", BS, "]",
           "_", "a", "b", "c", "d", "e", "f", "g", "h", "i", "k", "l", "m", "n",
           "o", "p", "r", "s", "t", "u", "w", "x", "y", "{", "|", "}">>

CharCode(c) == CHOOSE i \in 1..Len(Ascii) : Ascii[i] = c

RECURSIVE StrLess(_, _)
StrLess(a, b) ==
    IF b = <<>> THEN FALSE
    ELSE IF a = <<>> THEN TRUE
    ELSE IF Head(a) = Head(b) THEN StrLess(Tail(a), Tail(b))
    ELSE CharCode(Head(a)) < CharCode(Head(b))

\* the elements of a std::set<wxString> in iteration order
RECURSIVE SortedSeq(_)
SortedSeq(S) ==
    IF S = {} THEN <<>>
    ELSE LET m == CHOOSE x \in S : \A y \in S \ {x} : StrLess(x, y)
         IN  <<m>> \o SortedSeq(S \ {m})

Range(q) == {q[i] : i \in 1..Len(q)}

Digits == <<"0", "1", "2", "3", "4", "5", "6", "7", "8", "9">>

IsDigit(c) == \E i \in 1..10 : Digits[i] = c

DigitValue(c) == (CHOOSE i \in 1..10 : Digits[i] = c) - 1

\* wxString::ToLong succeeds on a non-empty string of decimal digits
IsNumber(s) == s # <<>> /\ \A i \in 1..Len(s) : IsDigit(s[i])

RECURSIVE ToLong(_)
ToLong(s) == IF s = <<>> THEN 0 ELSE 10 * ToLong(SubSeq(s, 1, Len(s) - 1)) + DigitValue(s[Len(s)])

\* wxString::Find(ch, true): position of the last occurrence, npos if none
RECURSIVE FindLast(_, _)
FindLast(s, ch) ==
    IF s = <<>> THEN npos
    ELSE IF s[Len(s)] = ch THEN Len(s) - 1
    ELSE FindLast(SubSeq(s, 1, Len(s) - 1), ch)

\* wxString::Lower, on the letters the model uses
LowerChar(c) ==
    CASE c = "A" -> "a" [] c = "S" -> "s" [] c = "K" -> "k" [] c = "T" -> "t"
      [] c = "C" -> "c" [] c = "D" -> "d" [] c = "F" -> "f" [] c = "W" -> "w"
      [] OTHER -> c

Lower(s) == [i \in 1..Len(s) |-> LowerChar(s[i])]

(***************************************************************************)
(* Handlers as functions of the fields they read                           *)
(***************************************************************************)

\* wxRegEx("\"(.*)\""): Matches, and GetMatch(strData, 1): the text between
\* the first and the last double quote
RegexMatches(strData) ==
    \E i, j \in 1..Len(strData) : i < j /\ strData[i] = DQ /\ strData[j] = DQ

RegexMatch1(strData) ==
    LET i == CHOOSE k \in 1..Len(strData) :
                  strData[k] = DQ /\ \A m \in 1..(k - 1) : strData[m] # DQ
        j == CHOOSE k \in 1..Len(strData) :
                  strData[k] = DQ /\ \A m \in (k + 1)..Len(strData) : strData[m] # DQ
    IN  SubSeq(strData, i + 1, j - 1)

\* A loop that queues a workspace like any other file and goes on.
RECURSIVE ScanParamsNoBreak(_, _, _)
ScanParamsNoBreak(params, CWD, acc) ==
    IF params = <<>> THEN acc
    ELSE LET strParam == Head(params)
             paramFullPath == MakeAbsolute(strParam, CWD)
             ft == FileTypeOf(strParam)
         IN  ScanParamsNoBreak(Tail(params), CWD,
                 [hasProject   |-> acc.hasProject \/ ft = "ftCodeBlocksProject",
                  hasWorkSpace |-> acc.hasWorkSpace \/ ft = "ftCodeBlocksWorkspace",
                  queue        |-> IF \/ ft \in {"ftCodeBlocksProject",
                                                  "ftCodeBlocksWorkspace"}
                                      \/ paramFullPath \in ExistingFiles
                                   THEN Append(acc.queue, paramFullPath)
                                   ELSE acc.queue])

\* ParseCmdLine, lines 1191-1221: the loop over the parameters
RECURSIVE ScanParams(_, _, _)
ScanParams(params, CWD, acc) ==
    IF params = <<>> THEN acc
    ELSE LET strParam == Head(params)
             paramFullPath == MakeAbsolute(strParam, CWD)
             ft == FileTypeOf(strParam)
         IN  IF ft = "ftCodeBlocksProject"
             THEN ScanParams(Tail(params), CWD,
                             [acc EXCEPT !.hasProject = TRUE,
                                         !.queue = Append(@, paramFullPath)])
             ELSE IF ft = "ftCodeBlocksWorkspace"
             THEN [acc EXCEPT !.hasWorkSpace = TRUE, !.queue = <<paramFullPath>>]
             ELSE IF paramFullPath \in ExistingFiles
             THEN ScanParams(Tail(params), CWD,
                             [acc EXCEPT !.queue = Append(@, paramFullPath)])
             ELSE ScanParams(Tail(params), CWD, acc)

\* A batch flag that does not ask for something to build.
BatchWithFrameAnyFile(hasProject, hasWorkSpace, build, rebuild, clean) ==
    build \/ rebuild \/ clean

\* the batch flag after a parse with a frame
BatchWithFrame(hasProject, hasWorkSpace, build, rebuild, clean) ==
    (hasProject \/ hasWorkSpace) /\ (build \/ rebuild \/ clean)

\* A parse with a frame that takes --build, --rebuild and --clean from the
\* command line it is given.
ParseWithFrameOwnSwitches(args, CWD, autoFile, queue, build, rebuild, clean, attach, config) ==
    LET found == FoundValue(args, OptName.file, autoFile)
        auto  == IF found # <<>> /\ CWD # <<>> THEN MakeAbsolute(found, CWD) ELSE found
        scan  == ScanParams(Params(args), CWD,
                            [hasProject |-> FALSE, hasWorkSpace |-> FALSE, queue |-> queue])
    IN  [m_HasProject   |-> scan.hasProject,
         m_HasWorkSpace |-> scan.hasWorkSpace,
         m_AutoFile     |-> auto,
         queue          |-> scan.queue,
         m_Batch        |-> BatchWithFrame(scan.hasProject, scan.hasWorkSpace,
                                           build \/ Found(args, OptName.build),
                                           rebuild \/ Found(args, OptName.rebuild),
                                           clean \/ Found(args, OptName.clean)),
         m_DebuggerAttach |-> FoundValue(args, OptName.dbgattach, attach),
         m_DebuggerConfig |-> FoundValue(args, OptName.dbgconfig, config),
         ret            |-> IF Len(Params(args)) # 0 \/ auto # <<>> THEN 1 ELSE 0]

\* ParseCmdLine(handlerFrame != nullptr, ...), lines 1166-1226 and 1273-1278
ParseWithFrame(args, CWD, autoFile, queue, build, rebuild, clean, attach, config) ==
    LET found == FoundValue(args, OptName.file, autoFile)
        auto  == IF found # <<>> /\ CWD # <<>> THEN MakeAbsolute(found, CWD) ELSE found
        scan  == ScanParams(Params(args), CWD,
                            [hasProject |-> FALSE, hasWorkSpace |-> FALSE, queue |-> queue])
    IN  [m_HasProject   |-> scan.hasProject,
         m_HasWorkSpace |-> scan.hasWorkSpace,
         m_AutoFile     |-> auto,
         queue          |-> scan.queue,
         m_Batch        |-> BatchWithFrame(scan.hasProject, scan.hasWorkSpace,
                                           build, rebuild, clean),
         m_DebuggerAttach |-> FoundValue(args, OptName.dbgattach, attach),
         m_DebuggerConfig |-> FoundValue(args, OptName.dbgconfig, config),
         ret            |-> IF Len(Params(args)) # 0 \/ auto # <<>> THEN 1 ELSE 0]

\* the leading decimal digits of s (what strtol consumes)
RECURSIVE DigitPrefix(_)
DigitPrefix(s) ==
    IF s = <<>> \/ ~IsDigit(Head(s)) THEN <<>>
    ELSE <<Head(s)>> \o DigitPrefix(Tail(s))

\* A LoadDelayedFiles that opens every entry of the queue as it was queued.
LoadDelayedFilesEveryEntry(queue, autoFile, openOk) ==
    [opens |-> queue, gotoLine |-> <<>>]

\* LoadDelayedFiles, lines 1299-1347: the paths passed to frame->Open, in
\* order, and the line passed to GotoLine (if any)
LoadDelayedFiles(queue, autoFile, openOk) ==
    LET unique   == SortedSeq(Range(queue))
        linePos  == FindLast(autoFile, ":")
        linePart == IF linePos # npos
                    THEN SubSeq(autoFile, linePos + 2, Len(autoFile)) ELSE <<>>
        digits   == DigitPrefix(linePart)
        toLong   == linePos # npos /\ IsNumber(linePart)
        line     == IF linePos # npos /\ digits # <<>> THEN ToLong(digits) ELSE -1
        filePart == IF linePos # npos /\ toLong
                    THEN SubSeq(autoFile, 1, linePos) ELSE autoFile
        autoOpen == IF autoFile # <<>> /\ filePart # <<>>
                    THEN <<MakeAbsolute(filePart, <<>>)>> ELSE <<>>
    IN  [opens    |-> unique \o autoOpen,
         gotoLine |-> IF autoOpen # <<>> /\ openOk /\ line # -1
                      THEN <<line - 1>> ELSE <<>>]

\* GetAppPath(), the built-in value of the data directory (lines 374-389)
GetAppPath == <<"/", "a">>

\* A LoadConfig in which the environment variable overrides --prefix.
LoadConfigEnvFirst(userDataDir, folderOk, prefix, env, data) ==
    IF userDataDir # <<>> /\ ~folderOk
    THEN [ok |-> FALSE, data_path |-> data]
    ELSE [ok |-> TRUE,
          data_path |->
             <<MakeAbsolute((IF env # <<>> THEN env
                             ELSE IF prefix # <<>> THEN prefix ELSE GetAppPath)
                            \o <<"/", "s", "h", "a", "r", "e", "/">>
                            \o <<"c", "o", "d", "e", "b", "l", "o", "c", "k", "s">>,
                            <<>>)>>]

\* LoadConfig, lines 361-419; folderOk: ConfigManager::SetUserDataFolder
\* succeeds, env: wxGetEnv("CODEBLOCKS_DATA_DIR"), data: the data_path the
\* configuration holds
LoadConfig(userDataDir, folderOk, prefix, env, data) ==
    IF userDataDir # <<>> /\ ~folderOk
    THEN [ok |-> FALSE, data_path |-> data]
    ELSE [ok |-> TRUE,
          data_path |->
             <<MakeAbsolute((IF prefix # <<>> THEN prefix
                             ELSE IF env # <<>> THEN env ELSE GetAppPath)
                            \o <<"/", "s", "h", "a", "r", "e", "/">>
                            \o <<"c", "o", "d", "e", "b", "l", "o", "c", "k", "s">>,
                            <<>>)>>]

\* the debugger plugins loaded, with the names of their configurations
Debuggers ==
    << [name    |-> <<"g", "d", "b">>,
        configs |-> << <<"D", "e", "f", "a", "u", "l", "t">> >>] >>

\* the lists Manager::Get()->GetDebuggerManager()->GetAllDebuggers() can hold
\* (line 1386): the plugins loaded, each with the names of its configurations
DebuggerSets ==
    LET gdb == <<"g", "d", "b">>
        cdb == <<"c", "d", "b">>
        Default == <<"D", "e", "f", "a", "u", "l", "t">>
        X == <<"X">>
    IN  { <<>>,
          Debuggers,
          << [name |-> cdb, configs |-> <<Default>>],
             [name |-> gdb, configs |-> <<X, Default, Default>>],
             [name |-> gdb, configs |-> <<Default>>] >>,
          << [name |-> cdb, configs |-> <<Default>>] >>,
          << [name |-> gdb, configs |-> <<X>>] >> }

\* An AttachDebugger that attaches with the first configuration of the plugin
\* without looking for the configuration named.
AttachDebuggerAnyConfig(localAttach, localConfig, debuggers) ==
    IF localAttach = <<>> \/ localConfig = <<>>
    THEN [call |-> <<>>,
          error |-> IF (localAttach = <<>>) # (localConfig = <<>>)
                    THEN "both-needed" ELSE "none"]
    ELSE LET pos == find(localConfig, <<":">>, 0) IN
         IF pos = npos \/ pos = 0 THEN [call |-> <<>>, error |-> "no-delimiter"]
         ELSE LET pluginName == substr(localConfig, 0, pos)
                  plugins == {i \in 1..Len(debuggers) : debuggers[i].name = pluginName}
              IN  IF debuggers = <<>> THEN [call |-> <<>>, error |-> "no-plugins"]
                  ELSE IF plugins = {} THEN [call |-> <<>>, error |-> "plugin-not-found"]
                  ELSE [call |-> <<[plugin |-> CHOOSE i \in plugins :
                                                  \A j \in plugins : i <= j,
                                    configIndex |-> 0,
                                    process |-> localAttach]>>,
                        error |-> "none"]

\* AttachDebugger, lines 1349-1445: the error logged or the attach performed
\* (SetActiveConfig(configIndex), then AttachToProcess(process) on the plugin)
AttachDebugger(localAttach, localConfig, debuggers) ==
    IF localAttach = <<>> \/ localConfig = <<>>
    THEN [call |-> <<>>,
          error |-> IF (localAttach = <<>>) # (localConfig = <<>>)
                    THEN "both-needed" ELSE "none"]
    ELSE LET pos == find(localConfig, <<":">>, 0) IN
         IF pos = npos \/ pos = 0 THEN [call |-> <<>>, error |-> "no-delimiter"]
         ELSE LET pluginName == substr(localConfig, 0, pos)
                  configName == SubSeq(localConfig, pos + 2, Len(localConfig))
                  plugins == {i \in 1..Len(debuggers) : debuggers[i].name = pluginName}
              IN  IF debuggers = <<>> THEN [call |-> <<>>, error |-> "no-plugins"]
                  ELSE IF plugins = {} THEN [call |-> <<>>, error |-> "plugin-not-found"]
                  ELSE LET plugin == CHOOSE i \in plugins : \A j \in plugins : i <= j
                           configs == debuggers[plugin].configs
                           hits == {k \in 1..Len(configs) : configs[k] = configName}
                       IN  IF hits = {}
                           THEN [call |-> <<>>, error |-> "config-not-found"]
                           ELSE [call |-> <<[plugin |-> plugin,
                                            configIndex |->
                                               (CHOOSE k \in hits : \A j \in hits : k <= j) - 1,
                                            process |-> localAttach]>>,
                                 error |-> "none"]

\* A handler that forgets the one_time_only latch.
BatchBuildDoneNoLatch(batch, once, exitCode, notify, dialog, autoClose, code) ==
    IF ~batch
    THEN [m_BatchExitCode |-> exitCode, one_time_only |-> once,
          notified |-> FALSE, closeQueued |-> FALSE]
    ELSE [m_BatchExitCode |-> code, one_time_only |-> TRUE,
          notified |-> notify, closeQueued |-> dialog /\ autoClose]

\* A handler that closes the dialog whatever --no-batch-window-close says.
BatchBuildDoneAlwaysClose(batch, once, exitCode, notify, dialog, autoClose, code) ==
    IF ~batch \/ once
    THEN [m_BatchExitCode |-> exitCode, one_time_only |-> once,
          notified |-> FALSE, closeQueued |-> FALSE]
    ELSE [m_BatchExitCode |-> code, one_time_only |-> TRUE,
          notified |-> notify, closeQueued |-> dialog]

\* OnBatchBuildDone, lines 1071-1106, for a compiler whose GetExitCode() is code
BatchBuildDone(batch, once, exitCode, notify, dialog, autoClose, code) ==
    IF ~batch \/ once
    THEN [m_BatchExitCode |-> exitCode, one_time_only |-> once,
          notified |-> FALSE, closeQueued |-> FALSE]
    ELSE [m_BatchExitCode |-> code, one_time_only |-> TRUE,
          notified |-> notify, closeQueued |-> dialog /\ autoClose]

\* A BatchJob that prefers the workspace-level operation.
BatchOperationWorkspaceFirst(rebuild, build, clean, hasProject, hasWorkSpace) ==
    IF rebuild
    THEN (IF hasWorkSpace THEN "RebuildWorkspace"
          ELSE IF hasProject THEN "Rebuild" ELSE "none")
    ELSE IF build
    THEN (IF hasWorkSpace THEN "BuildWorkspace"
          ELSE IF hasProject THEN "Build" ELSE "none")
    ELSE IF clean
    THEN (IF hasWorkSpace THEN "CleanWorkspace"
          ELSE IF hasProject THEN "Clean" ELSE "none")
    ELSE "none"

\* BatchJob, lines 1023-1043: the compiler operation started
BatchOperation(rebuild, build, clean, hasProject, hasWorkSpace) ==
    IF rebuild
    THEN (IF hasProject THEN "Rebuild"
          ELSE IF hasWorkSpace THEN "RebuildWorkspace" ELSE "none")
    ELSE IF build
    THEN (IF hasProject THEN "Build"
          ELSE IF hasWorkSpace THEN "BuildWorkspace" ELSE "none")
    ELSE IF clean
    THEN (IF hasProject THEN "Clean"
          ELSE IF hasWorkSpace THEN "CleanWorkspace" ELSE "none")
    ELSE "none"

(***************************************************************************)
(* Bounds and inputs of the application model                              *)
(***************************************************************************)
MaxConn     == 2    \* connections the IPC server accepts
MaxMsgs     == 2    \* messages executed on those connections
MaxFinished == 2    \* cbEVT_COMPILER_FINISHED events of one batch run

A_f         == <<"f">>
A_project   == <<"p", ".", "c", "b", "p">>
A_workspace == <<"w", ".", "w", "o", "r", "k", "s", "p", "a", "c", "e">>
A_script    == OptionHead(OptName.script) \o <<"s">>
A_targetAsk == OptionHead(OptName.target) \o <<"A", "s", "k">>

\* the arguments --no-dde, --dbg-attach=1 and --dbg-config=gdb:Default
A_dbg ==
    [nodde  |-> OptPrefix \o OptName.nodde,
     attach |-> OptionHead(OptName.dbgattach) \o <<"1">>,
     config |-> OptionHead(OptName.dbgconfig) \o <<"g", "d", "b", ":">>
                   \o <<"D", "e", "f", "a", "u", "l", "t">>]

\* the command lines the data path is followed for: without and with --prefix
\* (absolute, relative) and --user-data-dir
PrefixArgvs ==
    { <<A_dbg.nodde>>,
      <<A_dbg.nodde, OptionHead(OptName.prefix) \o <<"/", "p">> >>,
      <<A_dbg.nodde, OptionHead(OptName.prefix) \o <<"r">> >>,
      <<A_dbg.nodde, OptionHead(OptName.userdata) \o <<"/", "u">>,
        OptionHead(OptName.prefix) \o <<"/", "p">> >> }

\* the command lines with --dbg-attach or --dbg-config
DbgArgvs ==
    { <<A_dbg.nodde, A_dbg.attach>>,
      <<A_dbg.nodde, A_dbg.attach, A_dbg.config>>,
      <<A_dbg.nodde, A_dbg.attach, OptionHead(OptName.dbgconfig) \o <<"g", "d", "b">> >>,
      <<A_dbg.nodde, A_dbg.attach, OptionHead(OptName.dbgconfig) \o <<":", "X">> >> }

\* the command lines (argv[1..argc-1]) the modelled process is started with
AppArgvs ==
    { <<>>,
      <<A_f>>,
      <<A_workspace>>,
      <<OptPrefix \o OptName.help>>,
      <<OptPrefix \o OptName.multiple, A_f>>,
      <<A_script>>,
      <<OptPrefix \o OptName.build>>,
      <<OptPrefix \o OptName.build, A_project>>,
      <<OptPrefix \o OptName.rebuild, A_targetAsk, A_workspace>>,
      <<OptPrefix \o OptName.clean, OptPrefix \o OptName.nowinclose, A_project>>,
      <<OptPrefix \o OptName.build, OptPrefix \o OptName.notify, A_project, A_f>>,
      <<OptPrefix \o OptName.build, A_workspace, A_project>>,
      <<OptPrefix \o OptName.clean, A_project, A_workspace>>,
      <<A_dbg.nodde, OptionHead(OptName.file) \o <<"f", ":", "1", "2">> >>,
      <<A_dbg.nodde, OptionHead(OptName.file) \o <<"f", ":", "1", "x">> >>,
      <<A_dbg.nodde, OptionHead(OptName.file) \o <<"c", ":", "f">> >>,
      <<A_dbg.nodde, OptionHead(OptName.file) \o <<":", "3">> >>,
      <<A_dbg.nodde, A_f, A_f>>,
      <<A_dbg.nodde, A_f, OptionHead(OptName.file) \o A_f>> }
    \cup DbgArgvs \cup PrefixArgvs

\* the values ReadBool returns for the keys OnInit reads
Configs ==
    [use_ipc : BOOLEAN, raise_via_ipc : BOOLEAN, single_instance : BOOLEAN,
     show_splash : BOOLEAN]

\* the messages clients execute on a connection of the server
F_f == <<"/", "d", "/", "f">>
F_g == <<"/", "d", "/", "g">>

\* messages OnExecute has no use for: the shell's [IfExec_Open..], an unknown
\* tag, and [CmdLine({ without the CWD marker, without the terminator, with an
\* empty command line and with an empty cwd
UnusableMessages ==
    { TagIfExec \o F_f \o TagClose,
      <<"[", "X", "]">>,
      TagCmdLine \o A_f \o TagEnd,
      TagCmdLine \o A_f \o TagCWD \o wxGetCwd,
      TagCmdLine \o TagCWD \o wxGetCwd \o TagEnd,
      TagCmdLine \o A_f \o TagCWD \o TagEnd }

ClientMessages ==
    { TagOpen \o F_f \o TagClose,
      TagOpen \o F_g \o TagClose,
      TagRaise,
      CmdLineMessage(JoinArgs(<<OptionHead(OptName.prefix) \o <<"/", "x">>,
                                OptionHead(OptName.userdata) \o <<"/", "y">>,
                                A_dbg.nodde, OptPrefix \o OptName.safemode, A_f>>),
                     wxGetCwd),
      CmdLineMessage(JoinArgs(<<OptPrefix \o OptName.build, OptPrefix \o OptName.rebuild,
                                OptPrefix \o OptName.clean,
                                OptionHead(OptName.target) \o <<"T">>,
                                A_f, A_workspace, <<"g">> >>),
                     wxGetCwd),
      CmdLineMessage(JoinArgs(<<A_dbg.attach, A_dbg.config, OptPrefix \o OptName.nolog>>),
                     wxGetCwd),
      CmdLineMessage(JoinArgs(<<OptPrefix \o OptName.nosplash, OptPrefix \o OptName.notify,
                                A_script>>),
                     wxGetCwd),
      CmdLineMessage(JoinArgs(<<OptPrefix \o OptName.nowinclose,
                                OptionHead(OptName.personality) \o <<"q">>,
                                OptPrefix \o OptName.logtofile>>),
                     wxGetCwd) }
    \cup UnusableMessages

\* OnExecute, lines 158-177, on each of these messages: cmdLine and cwd as
\* extracted from the message, and the arguments the parser splits cmdLine into
Received ==
    [m \in ClientMessages |->
        [cmdLine |-> ExecCmdLine(m), cwd |-> ExecCwd(m),
         args |-> ConvertStringToArgs(ExecCmdLine(m))]]

ExitCodes == {0, 1}
ExceptionKinds == {"cbException", "const char*", "other"}

VARIABLES
    \* inputs
    argv, cfg, allDebuggers, CODEBLOCKS_DATA_DIR,
    \* position in the life cycle and why OnInit returned false
    pc, endReason,
    \* fields of CodeBlocksApp and the globals of app.cpp
    s_Loading, m_Batch, m_BatchNotify, m_Build, m_ReBuild, m_Clean, m_HasProject,
    m_HasWorkSpace, m_SafeMode, m_BatchWindowAutoClose, m_DDE, m_Splash, m_Script,
    m_Prefix, m_UserDataDir, m_BatchTarget, m_BatchExitCode, m_AutoFile,
    m_DelayedFilesToOpen, m_DebuggerAttach, m_DebuggerConfig, m_pSingleInstance,
    m_pBatchBuildDialog, m_Frame, g_DDEServer, serverFrame, one_time_only,
    \* the personality set by SetupPersonality and the logger of LogManager::app_log
    personality, app_log,
    \* the open connections of the server: each the m_Frame it was built with
    conns, nAccepted, nExecuted,
    \* the calls queued with CallAfter, and the compiler plugin
    pendingCalls, compiler, compilerOp, nFinished,
    \* what the process did as an IPC client
    sent, clientDisconnected, connAttempts, connResult,
    \* what OnInit did
    xrcLoaded, batchBuild, splashShown, frameShown, frameClosed, startupDoneSent,
    exceptionShown, thrownAt, sinkRegistered,
    \* what the handlers did
    opened, gotoLines, attachCalls, attachError, attachLast, openPending, ackedCmd,
    cmdLineEvents, cmdLineEvent, execResult,
    firstExit, notifications, closesQueued, batchJobResult, onRunResult, onExitResult,
    \* the value of the key data_path of the configuration: none, or the one written
    data_path

inputs        == <<argv, cfg, allDebuggers, CODEBLOCKS_DATA_DIR>>
ctl           == <<pc, endReason>>
startupFields == <<m_BatchNotify, m_Build, m_ReBuild, m_Clean, m_SafeMode,
                   m_BatchWindowAutoClose, m_DDE, m_Splash, m_Script, m_Prefix,
                   m_UserDataDir, personality, app_log>>
parseFields   == <<m_HasProject, m_HasWorkSpace, m_Batch>>
queueFields   == <<m_AutoFile, m_DelayedFilesToOpen, opened, gotoLines, openPending>>
attachFields  == <<m_DebuggerAttach, m_DebuggerConfig, attachCalls, attachError,
                   attachLast>>
batchFields   == <<m_BatchTarget, m_BatchExitCode, m_pBatchBuildDialog, one_time_only,
                   pendingCalls, compiler, compilerOp, nFinished>>
ipcFields     == <<g_DDEServer, serverFrame, conns, nAccepted, nExecuted,
                   m_pSingleInstance>>
frameFields   == <<m_Frame, frameShown, frameClosed, s_Loading>>
clientHist    == <<sent, clientDisconnected, connAttempts, connResult>>
initHist      == <<xrcLoaded, batchBuild, splashShown, startupDoneSent,
                   exceptionShown, thrownAt, sinkRegistered>>
cmdHist       == <<ackedCmd, cmdLineEvents, cmdLineEvent, execResult>>
batchHist     == <<firstExit, notifications, closesQueued, batchJobResult>>
exitHist      == <<onRunResult, onExitResult>>

appVars == <<inputs, ctl, startupFields, parseFields, queueFields, attachFields,
             batchFields, ipcFields, frameFields, clientHist, initHist, cmdHist,
             batchHist, exitHist, data_path>>

VARIABLES
    w_pc,        \* position of the forwarding round trip
    w_argv,      \* argv[1..argc-1] of the sending process
    w_cwd,       \* wxGetCwd() of the sending process
    w_strData,   \* the message passed to connection->Execute
    w_cmdLine,   \* cmdLine in DDEConnection::OnExecute
    w_rcwd,      \* cwd in DDEConnection::OnExecute
    w_args       \* the arguments the receiving parser obtains

wireVars == <<w_pc, w_argv, w_cwd, w_strData, w_cmdLine, w_rcwd, w_args>>

VARIABLES
    procs,       \* the processes of one user started concurrently: for each its
                 \* position in OnInit, its options and what it has created
    lockOwner    \* the process holding the lock "Code::Blocks-<user>" of
                 \* wxSingleInstanceChecker, 0 when it is free

instVars == <<procs, lockOwner>>

vars == <<appVars, wireVars, instVars>>

\* the process before OnInit runs
AppFields ==
    /\ endReason = "none"
    /\ s_Loading = FALSE /\ m_Batch = FALSE /\ m_BatchNotify = FALSE
    /\ m_Build = FALSE /\ m_ReBuild = FALSE /\ m_Clean = FALSE
    /\ m_HasProject = FALSE /\ m_HasWorkSpace = FALSE /\ m_SafeMode = FALSE
    /\ m_BatchWindowAutoClose = FALSE /\ m_DDE = FALSE /\ m_Splash = FALSE
    /\ m_Script = <<>> /\ m_Prefix = <<>> /\ m_UserDataDir = <<>>
    /\ personality = <<>> /\ app_log = "default"
    /\ m_BatchTarget = <<>> /\ m_BatchExitCode = 0 /\ m_AutoFile = <<>>
    /\ m_DelayedFilesToOpen = <<>> /\ m_DebuggerAttach = <<>> /\ m_DebuggerConfig = <<>>
    /\ m_pSingleInstance = FALSE /\ m_pBatchBuildDialog = FALSE /\ m_Frame = FALSE
    /\ g_DDEServer = FALSE /\ serverFrame = FALSE /\ one_time_only = FALSE
    /\ conns = <<>> /\ nAccepted = 0 /\ nExecuted = 0
    /\ pendingCalls = <<>> /\ compiler = "idle" /\ compilerOp = "none" /\ nFinished = 0
    /\ sent = <<>> /\ clientDisconnected = FALSE /\ connAttempts = 0 /\ connResult = "none"
    /\ xrcLoaded = FALSE /\ batchBuild = "unset" /\ splashShown = FALSE
    /\ frameShown = FALSE /\ frameClosed = FALSE /\ startupDoneSent = FALSE
    /\ exceptionShown = "none" /\ thrownAt = "none" /\ sinkRegistered = FALSE
    /\ opened = <<>> /\ gotoLines = <<>> /\ attachCalls = <<>> /\ attachError = "none"
    /\ attachLast = <<>>
    /\ openPending = {} /\ ackedCmd = 0 /\ cmdLineEvents = 0
    /\ cmdLineEvent = <<>> /\ execResult = <<>>
    /\ firstExit = <<>> /\ notifications = 0 /\ closesQueued = 0
    /\ batchJobResult = <<>> /\ onRunResult = <<>> /\ onExitResult = <<>>
    /\ data_path = <<>>

WireOff ==
    /\ w_pc = "off" /\ w_argv = <<>> /\ w_cwd = <<>> /\ w_strData = <<>>
    /\ w_cmdLine = <<>> /\ w_rcwd = <<>> /\ w_args = <<>>

InstOff ==
    /\ procs = <<>> /\ lockOwner = 0

Init ==
    /\ argv \in AppArgvs
    /\ cfg \in Configs
    /\ allDebuggers \in (IF argv \in DbgArgvs THEN DebuggerSets ELSE {Debuggers})
    /\ CODEBLOCKS_DATA_DIR \in (IF argv \in PrefixArgvs
                                THEN {<<>>, <<"/", "e">>, <<"e">>} ELSE {<<>>})
    /\ pc = "OnInit"
    /\ AppFields
    /\ WireOff
    /\ InstOff

(***************************************************************************)
(* CodeBlocksApp::OnInit, one action per step                              *)
(***************************************************************************)

\* OnInit returns false
ReturnFalse(reason) ==
    /\ pc' = "InitFalse"
    /\ endReason' = reason

Goto(label) ==
    /\ pc' = label
    /\ UNCHANGED endReason

\* lines 599-611
OnInit_Begin ==
    /\ pc = "OnInit"
    /\ s_Loading' = TRUE
    /\ m_pBatchBuildDialog' = FALSE
    /\ m_BatchExitCode' = 0
    /\ m_Batch' = FALSE
    /\ m_BatchNotify' = FALSE
    /\ m_Build' = FALSE
    /\ m_ReBuild' = FALSE
    /\ m_Clean' = FALSE
    /\ m_HasProject' = FALSE
    /\ m_HasWorkSpace' = FALSE
    /\ m_SafeMode' = FALSE
    /\ m_BatchWindowAutoClose' = TRUE
    /\ m_pSingleInstance' = FALSE
    /\ Goto("ParseCmdLine1")
    /\ UNCHANGED <<wireVars, instVars, data_path>>
    /\ UNCHANGED <<inputs, m_DDE, m_Splash, m_Script, m_Prefix, m_UserDataDir,
                   personality, app_log,
                   queueFields, attachFields, m_BatchTarget, one_time_only,
                   pendingCalls, compiler, compilerOp, nFinished, g_DDEServer,
                   serverFrame, conns, nAccepted, nExecuted, m_Frame, frameShown,
                   frameClosed, clientHist, initHist, cmdHist, batchHist, exitHist>>

\* the initial setting of the batch flag, line 1260
BatchWithoutFrame(build, rebuild, clean) == build \/ rebuild \/ clean

\* line 649: ParseCmdLine(nullptr), lines 1143-1163 and 1227-1278
OnInit_ParseCmdLine1 ==
    /\ pc = "ParseCmdLine1"
    /\ IF Found(argv, OptName.help)
       THEN /\ ReturnFalse("help")
            /\ UNCHANGED <<startupFields, m_Batch, m_BatchTarget, m_DebuggerAttach,
                           m_DebuggerConfig>>
       ELSE /\ m_Prefix' = FoundValue(argv, OptName.prefix, m_Prefix)
            /\ m_UserDataDir' = FoundValue(argv, OptName.userdata, m_UserDataDir)
            /\ m_DDE' = ~Found(argv, OptName.nodde)
            /\ m_SafeMode' = Found(argv, OptName.safemode)
            /\ m_Splash' = ~Found(argv, OptName.nosplash)
            /\ m_BatchNotify' = Found(argv, OptName.notify)
            /\ m_BatchWindowAutoClose' = ~Found(argv, OptName.nowinclose)
            /\ m_Build' = Found(argv, OptName.build)
            /\ m_ReBuild' = Found(argv, OptName.rebuild)
            /\ m_Clean' = Found(argv, OptName.clean)
            /\ m_BatchTarget' = FoundValue(argv, OptName.target, m_BatchTarget)
            /\ m_Script' = FoundValue(argv, OptName.script, m_Script)
            /\ personality' = FoundValue(argv, OptName.personality,
                                         FoundValue(argv, OptName.profile, personality))
            /\ app_log' = (IF Found(argv, OptName.logtofile) THEN "FileLogger"
                           ELSE IF ~Found(argv, OptName.nolog) THEN "TextCtrlLogger"
                           ELSE app_log)
            /\ m_Batch' = BatchWithoutFrame(Found(argv, OptName.build), Found(argv, OptName.rebuild),
                                            Found(argv, OptName.clean))
            /\ m_DebuggerAttach' = FoundValue(argv, OptName.dbgattach, m_DebuggerAttach)
            /\ m_DebuggerConfig' = FoundValue(argv, OptName.dbgconfig, m_DebuggerConfig)
            /\ Goto("LoadConfig")
    /\ UNCHANGED <<wireVars, instVars, data_path>>
    /\ UNCHANGED <<inputs, m_HasProject, m_HasWorkSpace, queueFields, attachCalls,
                   attachError, attachLast, m_BatchExitCode, m_pBatchBuildDialog, one_time_only,
                   pendingCalls, compiler, compilerOp, nFinished, ipcFields,
                   frameFields, clientHist, initHist, cmdHist, batchHist, exitHist>>

\* lines 660-661: LoadConfig fails only if SetUserDataFolder does (line 368)
OnInit_LoadConfig ==
    /\ pc = "LoadConfig"
    /\ \E folderOk \in (IF m_UserDataDir # <<>> THEN BOOLEAN ELSE {TRUE}) :
          LET r == LoadConfig(m_UserDataDir, folderOk, m_Prefix, CODEBLOCKS_DATA_DIR,
                              data_path)
          IN  /\ data_path' = r.data_path
              /\ IF r.ok THEN Goto("InitXRC") ELSE ReturnFalse("config")
    /\ UNCHANGED <<wireVars, instVars>>
    /\ UNCHANGED <<inputs, startupFields, parseFields, queueFields, attachFields,
                   batchFields, ipcFields, frameFields, clientHist, initHist,
                   cmdHist, batchHist, exitHist>>

\* lines 666-670
OnInit_InitXRC ==
    /\ pc = "InitXRC"
    /\ IF ~m_Batch /\ m_Script = <<>>
       THEN \E loaded \in BOOLEAN :
               IF loaded
               THEN xrcLoaded' = TRUE /\ Goto("Connect")
               ELSE xrcLoaded' = FALSE /\ ReturnFalse("resources")
       ELSE UNCHANGED xrcLoaded /\ Goto("Connect")
    /\ UNCHANGED <<wireVars, instVars, data_path>>
    /\ UNCHANGED <<inputs, startupFields, parseFields, queueFields, attachFields,
                   batchFields, ipcFields, frameFields, clientHist, batchBuild,
                   splashShown, startupDoneSent, exceptionShown, thrownAt,
                   sinkRegistered, cmdHist, batchHist, exitHist>>

\* A client that sends [Raise] whatever raise_via_ipc says.
ForwardedAlwaysRaise(args, cwd, raise) ==
    (IF JoinArgs(args) # <<>> THEN <<CmdLineMessage(JoinArgs(args), cwd)>> ELSE <<>>)
    \o <<TagRaise>>

\* lines 685-700: the messages the client executes on its connection
Forwarded(args, cwd, raise) ==
    (IF JoinArgs(args) # <<>> THEN <<CmdLineMessage(JoinArgs(args), cwd)>> ELSE <<>>)
    \o (IF raise THEN <<TagRaise>> ELSE <<>>)

\* line 673
ClientWanted(dde, batch, useIpc) == dde /\ ~batch /\ useIpc

\* lines 672-714: the client connection to a running instance
OnInit_Connect ==
    /\ pc = "Connect"
    /\ IF ClientWanted(m_DDE, m_Batch, cfg.use_ipc)
       THEN \E connection \in BOOLEAN :
              /\ connAttempts' = connAttempts + 1
              /\ IF connection
                 THEN /\ connResult' = "connected"
                      /\ sent' = sent \o Forwarded(argv, wxGetCwd, cfg.raise_via_ipc)
                      /\ clientDisconnected' = TRUE
                      /\ ReturnFalse("forwarded")
                 ELSE /\ connResult' = "failed"
                      /\ UNCHANGED <<sent, clientDisconnected>>
                      /\ Goto("SingleInstance")
       ELSE /\ UNCHANGED clientHist
            /\ Goto("SingleInstance")
    /\ UNCHANGED <<wireVars, instVars, data_path>>
    /\ UNCHANGED <<inputs, startupFields, parseFields, queueFields, attachFields,
                   batchFields, ipcFields, frameFields, initHist, cmdHist,
                   batchHist, exitHist>>

\* A check that is made only with --multiple-instance.
CheckerWantedWithMultiple(singleInstance, multiple) == singleInstance /\ multiple

\* lines 716-717
CheckerWanted(singleInstance, multiple) == singleInstance /\ ~multiple

\* lines 716-730
OnInit_SingleInstance ==
    /\ pc = "SingleInstance"
    /\ IF CheckerWanted(cfg.single_instance, Found(argv, OptName.multiple))
       THEN /\ m_pSingleInstance' = TRUE
            /\ \E IsAnotherRunning \in BOOLEAN :
                  IF IsAnotherRunning THEN ReturnFalse("another") ELSE Goto("StartServer")
       ELSE /\ UNCHANGED m_pSingleInstance
            /\ Goto("StartServer")
    /\ UNCHANGED <<wireVars, instVars, data_path>>
    /\ UNCHANGED <<inputs, startupFields, parseFields, queueFields, attachFields,
                   batchFields, g_DDEServer, serverFrame, conns, nAccepted, nExecuted,
                   frameFields, clientHist, initHist, cmdHist, batchHist, exitHist>>

\* A server that is started whatever the command line says.
ServerWantedAlways(dde, batch) == TRUE

\* A server that is started in batch mode only.
ServerWantedInBatch(dde, batch) == dde /\ batch

\* line 733
ServerWanted(dde, batch) == dde /\ ~batch

\* lines 732-740
OnInit_StartServer ==
    /\ pc = "StartServer"
    /\ IF ServerWanted(m_DDE, m_Batch)
       THEN g_DDEServer' = TRUE /\ serverFrame' = FALSE
       ELSE UNCHANGED <<g_DDEServer, serverFrame>>
    /\ Goto("Splash")
    /\ UNCHANGED <<wireVars, instVars, data_path>>
    /\ UNCHANGED <<inputs, startupFields, parseFields, queueFields, attachFields,
                   batchFields, conns, nAccepted, nExecuted, m_pSingleInstance,
                   frameFields, clientHist, initHist, cmdHist, batchHist, exitHist>>

\* lines 744-746; the constructor of Splash calls Manager::Yield() (line 304)
OnInit_Splash ==
    /\ pc = "Splash"
    /\ LET show == ~m_Batch /\ m_Script = <<>> /\ m_Splash /\ cfg.show_splash IN
       /\ splashShown' = show
       /\ Goto(IF show THEN "SplashYield" ELSE "InitFrame")
    /\ UNCHANGED <<wireVars, instVars, data_path>>
    /\ UNCHANGED <<inputs, startupFields, parseFields, queueFields, attachFields,
                   batchFields, ipcFields, frameFields, clientHist, xrcLoaded,
                   batchBuild, startupDoneSent, exceptionShown, thrownAt,
                   sinkRegistered, cmdHist, batchHist, exitHist>>

\* the places of OnInit where a nested event loop dispatches IPC callbacks:
\* Manager::Yield() in Splash (line 304), and the modal dialogs of ShowTips and
\* InitAssociations (lines 827-830)
YieldPoints == {"SplashYield", "ShowTips"}

\* the nested event loop returns
OnInit_YieldReturn ==
    /\ pc \in YieldPoints
    /\ Goto(IF pc = "SplashYield" THEN "InitFrame" ELSE "Finish")
    /\ UNCHANGED <<wireVars, instVars, data_path>>
    /\ UNCHANGED <<inputs, startupFields, parseFields, queueFields, attachFields,
                   batchFields, ipcFields, frameFields, clientHist, initHist,
                   cmdHist, batchHist, exitHist>>

\* lines 748-752 and InitFrame, lines 515-526
OnInit_InitFrame ==
    /\ pc = "InitFrame"
    /\ batchBuild' = (IF m_Batch \/ m_Script # <<>> THEN "true" ELSE "false")
    /\ m_Frame' = TRUE
    /\ serverFrame' = (IF g_DDEServer /\ m_DDE THEN TRUE ELSE serverFrame)
    /\ Goto("ParseCmdLine2")
    /\ UNCHANGED <<wireVars, instVars, data_path>>
    /\ UNCHANGED <<inputs, startupFields, parseFields, queueFields, attachFields,
                   batchFields, g_DDEServer, conns, nAccepted, nExecuted,
                   m_pSingleInstance, frameShown, frameClosed, s_Loading, clientHist,
                   xrcLoaded, splashShown, startupDoneSent, exceptionShown, thrownAt,
                   sinkRegistered, cmdHist, batchHist, exitHist>>

\* A parse with a frame that also runs the branch of the parse without one
\* (lines 1229-1260) on the command line it is given.
ParseCmdLineFrameStartup(args, CWD) ==
    LET r == ParseWithFrame(args, CWD, m_AutoFile, m_DelayedFilesToOpen, m_Build,
                            m_ReBuild, m_Clean, m_DebuggerAttach, m_DebuggerConfig)
    IN  /\ m_HasProject' = r.m_HasProject
        /\ m_HasWorkSpace' = r.m_HasWorkSpace
        /\ m_Batch' = r.m_Batch
        /\ m_AutoFile' = r.m_AutoFile
        /\ m_DelayedFilesToOpen' = r.queue
        /\ m_DebuggerAttach' = r.m_DebuggerAttach
        /\ m_DebuggerConfig' = r.m_DebuggerConfig
        /\ m_Prefix' = FoundValue(args, OptName.prefix, m_Prefix)
        /\ m_UserDataDir' = FoundValue(args, OptName.userdata, m_UserDataDir)
        /\ m_DDE' = ~Found(args, OptName.nodde)
        /\ m_SafeMode' = Found(args, OptName.safemode)
        /\ m_Splash' = ~Found(args, OptName.nosplash)
        /\ m_Script' = FoundValue(args, OptName.script, m_Script)
        /\ UNCHANGED <<m_BatchNotify, m_Build, m_ReBuild, m_Clean,
                       m_BatchWindowAutoClose, personality, app_log>>

\* ParseCmdLine(frame, cmdLine, cwd) on the fields of the application
ParseCmdLineFrame(args, CWD) ==
    IF Found(args, OptName.help)
    THEN UNCHANGED <<parseFields, m_AutoFile, m_DelayedFilesToOpen, m_DebuggerAttach,
                     m_DebuggerConfig, startupFields>>
    ELSE LET r == ParseWithFrame(args, CWD, m_AutoFile, m_DelayedFilesToOpen, m_Build,
                                 m_ReBuild, m_Clean, m_DebuggerAttach, m_DebuggerConfig)
         IN  /\ UNCHANGED startupFields
             /\ m_HasProject' = r.m_HasProject
             /\ m_HasWorkSpace' = r.m_HasWorkSpace
             /\ m_Batch' = r.m_Batch
             /\ m_AutoFile' = r.m_AutoFile
             /\ m_DelayedFilesToOpen' = r.queue
             /\ m_DebuggerAttach' = r.m_DebuggerAttach
             /\ m_DebuggerConfig' = r.m_DebuggerConfig

\* lines 761-770 and the branches at lines 772 and 793
OnInit_ParseCmdLine2 ==
    /\ pc = "ParseCmdLine2"
    /\ ParseCmdLineFrame(argv, <<>>)
    /\ Goto(IF m_Batch' THEN "BatchStartup"
            ELSE IF m_Script # <<>> THEN "Script" ELSE "StartupScript")
    /\ UNCHANGED <<wireVars, instVars, data_path>>
    /\ UNCHANGED <<inputs, opened, gotoLines, openPending, attachCalls,
                   attachError, attachLast, batchFields, ipcFields, frameFields, clientHist,
                   initHist, cmdHist, batchHist, exitHist>>

\* LoadDelayedFiles(frame) on the fields of the application
DoLoadDelayedFiles(openOk) ==
    LET r == LoadDelayedFiles(m_DelayedFilesToOpen, m_AutoFile, openOk) IN
    /\ opened' = opened \o r.opens
    /\ gotoLines' = gotoLines \o r.gotoLine
    /\ openPending' = openPending \ Range(r.opens)
    /\ m_DelayedFilesToOpen' = <<>>
    /\ m_AutoFile' = <<>>

\* the results frame->Open can have for the auto-file
OpenResults == IF m_AutoFile # <<>> THEN BOOLEAN ELSE {TRUE}

\* An AttachDebugger that keeps the parameters it has used.
DoAttachDebuggerKeep ==
    LET r == AttachDebugger(m_DebuggerAttach, m_DebuggerConfig, allDebuggers) IN
    /\ attachCalls' = attachCalls \o r.call
    /\ attachError' = r.error
    /\ attachLast' = <<[attach |-> m_DebuggerAttach, config |-> m_DebuggerConfig,
                        call |-> r.call, error |-> r.error]>>
    /\ UNCHANGED <<m_DebuggerAttach, m_DebuggerConfig>>

\* AttachDebugger() on the fields of the application
DoAttachDebugger ==
    LET r == AttachDebugger(m_DebuggerAttach, m_DebuggerConfig, allDebuggers) IN
    /\ attachCalls' = attachCalls \o r.call
    /\ attachError' = r.error
    /\ attachLast' = <<[attach |-> m_DebuggerAttach, config |-> m_DebuggerConfig,
                        call |-> r.call, error |-> r.error]>>
    /\ m_DebuggerAttach' = <<>>
    /\ m_DebuggerConfig' = <<>>

\* lines 772-781
OnInit_BatchStartup ==
    /\ pc = "BatchStartup"
    /\ startupDoneSent' = TRUE
    /\ sinkRegistered' = TRUE
    /\ s_Loading' = FALSE
    /\ Goto("BatchLoad")
    /\ UNCHANGED <<wireVars, instVars, data_path>>
    /\ UNCHANGED <<inputs, startupFields, parseFields, queueFields, attachFields,
                   batchFields, ipcFields, m_Frame, frameShown, frameClosed,
                   clientHist, xrcLoaded, batchBuild, splashShown, exceptionShown,
                   thrownAt, cmdHist, batchHist, exitHist>>

\* lines 782-790: OnInit returns true with BatchJob queued
OnInit_BatchLoad ==
    /\ pc = "BatchLoad"
    /\ \E openOk \in OpenResults : DoLoadDelayedFiles(openOk)
    /\ pendingCalls' = Append(pendingCalls, "BatchJob")
    /\ Goto("Running")
    /\ UNCHANGED <<wireVars, instVars, data_path>>
    /\ UNCHANGED <<inputs, startupFields, parseFields, attachFields, m_BatchTarget,
                   m_BatchExitCode, m_pBatchBuildDialog, one_time_only, compiler,
                   compilerOp, nFinished, ipcFields, frameFields, clientHist,
                   initHist, cmdHist, batchHist, exitHist>>

\* lines 793-804: the script is run, the frame closed, OnInit returns true
OnInit_Script ==
    /\ pc = "Script"
    /\ s_Loading' = FALSE
    /\ frameClosed' = TRUE
    /\ Goto("Running")
    /\ UNCHANGED <<wireVars, instVars, data_path>>
    /\ UNCHANGED <<inputs, startupFields, parseFields, queueFields, attachFields,
                   batchFields, ipcFields, m_Frame, frameShown, clientHist, initHist,
                   cmdHist, batchHist, exitHist>>

\* lines 806-818
OnInit_StartupScript ==
    /\ pc = "StartupScript"
    /\ Goto("Show")
    /\ UNCHANGED <<wireVars, instVars, data_path>>
    /\ UNCHANGED <<inputs, startupFields, parseFields, queueFields, attachFields,
                   batchFields, ipcFields, frameFields, clientHist, initHist,
                   cmdHist, batchHist, exitHist>>

\* lines 820-823
OnInit_Show ==
    /\ pc = "Show"
    /\ frameShown' = TRUE
    /\ Goto("StartupDone")
    /\ UNCHANGED <<wireVars, instVars, data_path>>
    /\ UNCHANGED <<inputs, startupFields, parseFields, queueFields, attachFields,
                   batchFields, ipcFields, m_Frame, frameClosed, s_Loading,
                   clientHist, initHist, cmdHist, batchHist, exitHist>>

\* lines 825-830
OnInit_StartupDone ==
    /\ pc = "StartupDone"
    /\ Goto("ShowTips")
    /\ UNCHANGED <<wireVars, instVars, data_path>>
    /\ UNCHANGED <<inputs, startupFields, parseFields, queueFields, attachFields,
                   batchFields, ipcFields, frameFields, clientHist, initHist,
                   cmdHist, batchHist, exitHist>>

\* lines 832-836
OnInit_Finish ==
    /\ pc = "Finish"
    /\ s_Loading' = FALSE
    /\ \E openOk \in OpenResults : DoLoadDelayedFiles(openOk)
    /\ DoAttachDebugger
    /\ Goto("FinishEvent")
    /\ UNCHANGED <<wireVars, instVars, data_path>>
    /\ UNCHANGED <<inputs, startupFields, parseFields, batchFields, ipcFields,
                   m_Frame, frameShown, frameClosed, clientHist, initHist, cmdHist,
                   batchHist, exitHist>>

\* lines 838-847: OnInit returns true
OnInit_FinishEvent ==
    /\ pc = "FinishEvent"
    /\ startupDoneSent' = TRUE
    /\ Goto("Running")
    /\ UNCHANGED <<wireVars, instVars, data_path>>
    /\ UNCHANGED <<inputs, startupFields, parseFields, queueFields, attachFields,
                   batchFields, ipcFields, frameFields, clientHist, xrcLoaded,
                   batchBuild, splashShown, exceptionShown, thrownAt, sinkRegistered,
                   cmdHist, batchHist, exitHist>>

\* the steps inside the try block (lines 640-848) that call into the
\* application framework and can raise an exception
ThrowPoints ==
    {"ParseCmdLine1", "LoadConfig", "InitXRC", "InitFrame", "ParseCmdLine2",
     "BatchStartup", "BatchLoad", "Script", "StartupScript", "StartupDone",
     "Finish", "FinishEvent"}

\* A catch block that swallows the exception and lets OnInit return true.
CaughtReturnsTrue(kind) == [shown |-> kind, next |-> "Running"]

\* lines 849-862: every catch block shows a message; OnInit then returns false
Caught(kind) == [shown |-> kind, next |-> "InitFalse"]

\* the step at pc raises an exception
OnInit_Throw ==
    /\ pc \in ThrowPoints
    /\ \E kind \in ExceptionKinds :
          /\ exceptionShown' = Caught(kind).shown
          /\ pc' = Caught(kind).next
    /\ thrownAt' = pc
    /\ endReason' = "exception"
    /\ UNCHANGED <<wireVars, instVars, data_path>>
    /\ UNCHANGED <<inputs, startupFields, parseFields, queueFields, attachFields,
                   batchFields, ipcFields, frameFields, clientHist, xrcLoaded,
                   batchBuild, splashShown, startupDoneSent, sinkRegistered,
                   cmdHist, batchHist, exitHist>>

(***************************************************************************)
(* The IPC server side: DDEServer and DDEConnection                        *)
(***************************************************************************)

\* callbacks of the server run whenever the process dispatches events
Dispatching ==
    /\ g_DDEServer
    /\ pc \in YieldPoints \/ (pc = "Running" /\ ~frameClosed)

RemoveAt(q, i) == SubSeq(q, 1, i - 1) \o SubSeq(q, i + 1, Len(q))

\* DDEServer::OnAcceptConnection, lines 108-111: the connection is built
\* with the frame the server holds at that moment
OnAcceptConnection ==
    /\ Dispatching
    /\ nAccepted < MaxConn
    /\ nAccepted' = nAccepted + 1
    /\ \E topicMatches \in BOOLEAN :
          conns' = IF topicMatches THEN Append(conns, serverFrame) ELSE conns
    /\ UNCHANGED <<wireVars, instVars, data_path>>
    /\ UNCHANGED <<inputs, ctl, startupFields, parseFields, queueFields, attachFields,
                   batchFields, g_DDEServer, serverFrame, nExecuted, m_pSingleInstance,
                   frameFields, clientHist, initHist, cmdHist, batchHist, exitHist>>

\* DDEConnection::OnExecute, lines 113-192, on connection i
OnExecute(i, strData) ==
    /\ Dispatching
    /\ nExecuted < MaxMsgs
    /\ nExecuted' = nExecuted + 1
    /\ IF StartsWith(strData, TagIfExec)
       THEN /\ execResult' = <<[ret |-> FALSE, warning |-> FALSE]>>
            /\ UNCHANGED <<parseFields, queueFields, m_DebuggerAttach, m_DebuggerConfig,
                           ackedCmd, cmdLineEvents, cmdLineEvent, startupFields>>
       ELSE IF StartsWith(strData, TagOpen)
       THEN /\ IF RegexMatches(strData)
               THEN /\ m_DelayedFilesToOpen' =
                          Append(m_DelayedFilesToOpen, RegexMatch1(strData))
                    /\ openPending' = openPending \cup {RegexMatch1(strData)}
               ELSE UNCHANGED <<m_DelayedFilesToOpen, openPending>>
            /\ execResult' = <<[ret |-> TRUE, warning |-> FALSE]>>
            /\ UNCHANGED <<parseFields, m_AutoFile, opened, gotoLines,
                           m_DebuggerAttach, m_DebuggerConfig, ackedCmd, cmdLineEvents,
                           cmdLineEvent, startupFields>>
       ELSE IF StartsWith(strData, TagOpenLine)
       THEN /\ m_AutoFile' = IF RegexMatches(strData) THEN RegexMatch1(strData)
                             ELSE m_AutoFile
            /\ execResult' = <<[ret |-> TRUE, warning |-> FALSE]>>
            /\ UNCHANGED <<parseFields, m_DelayedFilesToOpen, opened, gotoLines,
                           openPending, m_DebuggerAttach, m_DebuggerConfig, ackedCmd,
                           cmdLineEvents, cmdLineEvent, startupFields>>
       ELSE IF StartsWith(strData, TagRaise)
       THEN /\ execResult' = <<[ret |-> TRUE, warning |-> FALSE]>>
            /\ UNCHANGED <<parseFields, queueFields, m_DebuggerAttach, m_DebuggerConfig,
                           ackedCmd, cmdLineEvents, cmdLineEvent, startupFields>>
       ELSE IF StartsWith(strData, TagCmdLine)
       THEN LET cmdLine == Received[strData].cmdLine
                cwd     == Received[strData].cwd
            IN  /\ ackedCmd' = IF cmdLine # <<>> /\ cwd # <<>>
                               THEN ackedCmd + 1 ELSE ackedCmd
                /\ IF cmdLine # <<>> /\ cwd # <<>> /\ conns[i]
                   THEN /\ ParseCmdLineFrame(Received[strData].args, cwd)
                        /\ cmdLineEvents' = cmdLineEvents + 1
                        /\ cmdLineEvent' = <<[cmdLine |-> cmdLine, cwd |-> cwd,
                                              args |-> Received[strData].args]>>
                   ELSE UNCHANGED <<parseFields, m_AutoFile, m_DelayedFilesToOpen,
                                    m_DebuggerAttach, m_DebuggerConfig, cmdLineEvents,
                                    cmdLineEvent, startupFields>>
                /\ execResult' = <<[ret |-> TRUE, warning |-> FALSE]>>
                /\ UNCHANGED <<opened, gotoLines, openPending>>
       ELSE /\ execResult' = <<[ret |-> FALSE, warning |-> TRUE]>>
            /\ UNCHANGED <<parseFields, queueFields, m_DebuggerAttach, m_DebuggerConfig,
                           ackedCmd, cmdLineEvents, cmdLineEvent, startupFields>>
    /\ UNCHANGED <<wireVars, instVars, data_path>>
    /\ UNCHANGED <<inputs, ctl, attachCalls, attachError, attachLast, batchFields,
                   g_DDEServer, serverFrame, conns, nAccepted, m_pSingleInstance,
                   frameFields, clientHist, initHist, batchHist, exitHist>>

\* a client executes a message on one of the open connections
Execute ==
    \E i \in 1..Len(conns) : \E strData \in ClientMessages : OnExecute(i, strData)

\* An OnDisconnect that does not look at s_Loading.
OnDisconnectWhileLoading(i) ==
    /\ Dispatching
    /\ conns' = RemoveAt(conns, i)
    /\ IF conns[i]
       THEN /\ \E openOk \in OpenResults : DoLoadDelayedFiles(openOk)
            /\ DoAttachDebugger
       ELSE UNCHANGED <<queueFields, attachFields>>
    /\ UNCHANGED <<wireVars, instVars, data_path>>
    /\ UNCHANGED <<inputs, ctl, startupFields, parseFields, batchFields, g_DDEServer,
                   serverFrame, nAccepted, nExecuted, m_pSingleInstance, frameFields,
                   clientHist, initHist, cmdHist, batchHist, exitHist>>

\* DDEConnection::OnDisconnect, lines 194-205, on connection i
OnDisconnect(i) ==
    /\ Dispatching
    /\ conns' = RemoveAt(conns, i)
    /\ IF ~s_Loading /\ conns[i]
       THEN /\ \E openOk \in OpenResults : DoLoadDelayedFiles(openOk)
            /\ DoAttachDebugger
       ELSE UNCHANGED <<queueFields, attachFields>>
    /\ UNCHANGED <<wireVars, instVars, data_path>>
    /\ UNCHANGED <<inputs, ctl, startupFields, parseFields, batchFields, g_DDEServer,
                   serverFrame, nAccepted, nExecuted, m_pSingleInstance, frameFields,
                   clientHist, initHist, cmdHist, batchHist, exitHist>>

Disconnect == \E i \in 1..Len(conns) : OnDisconnect(i)

(***************************************************************************)
(* The main loop: the batch build, the end of the run                      *)
(***************************************************************************)
Ask == <<"a", "s", "k">>

\* the title of the build target the user selects
TargetTitle == <<"T">>

\* BatchJob, lines 967-1052, called from the lambda queued at line 788;
\* hasCompiler: GetFirstCompiler() != nullptr, prj: GetActiveProject() != nullptr,
\* selected: SelectTarget() != -1
BatchJob(hasCompiler, prj, selected) ==
    IF ~m_Batch
    THEN /\ batchJobResult' = <<-1>>
         /\ UNCHANGED <<m_BatchTarget, m_pBatchBuildDialog, compiler, compilerOp>>
    ELSE IF ~hasCompiler
    THEN /\ batchJobResult' = <<-3>>
         /\ UNCHANGED <<m_BatchTarget, m_pBatchBuildDialog, compiler, compilerOp>>
    ELSE IF ~m_Clean /\ Lower(m_BatchTarget) = Ask /\ prj /\ ~selected
    THEN /\ batchJobResult' = <<0>>
         /\ m_BatchTarget' = <<>>
         /\ UNCHANGED <<m_pBatchBuildDialog, compiler, compilerOp>>
    ELSE /\ m_BatchTarget' = (IF ~m_Clean /\ Lower(m_BatchTarget) = Ask
                              THEN (IF prj THEN TargetTitle ELSE <<>>)
                              ELSE m_BatchTarget)
         /\ m_pBatchBuildDialog' = TRUE
         /\ compilerOp' = BatchOperation(m_ReBuild, m_Build, m_Clean, m_HasProject,
                                         m_HasWorkSpace)
         /\ compiler' = (IF compilerOp' # "none" THEN "running" ELSE compiler)
         /\ batchJobResult' = <<0>>

\* compiler->IsRunning(): a build that is being stopped runs until it ends
IsRunning(c) == c \in {"running", "killed"}

\* OnCloseBatchBuildWindow, lines 1054-1069; stop: the answer to the question
\* whether the running build is to be stopped
OnCloseBatchBuildWindow(stop) ==
    IF IsRunning(compiler)
    THEN /\ compiler' = (IF stop THEN "killed" ELSE compiler)
         /\ UNCHANGED frameClosed
    ELSE /\ frameClosed' = TRUE
         /\ UNCHANGED compiler

\* the main loop runs the next call queued with CallAfter
RunPending ==
    /\ pc = "Running"
    /\ ~frameClosed
    /\ pendingCalls # <<>>
    /\ pendingCalls' = Tail(pendingCalls)
    /\ IF Head(pendingCalls) = "BatchJob"
       THEN /\ \E hasCompiler, prj, selected \in BOOLEAN :
                  BatchJob(hasCompiler, prj, selected)
            /\ UNCHANGED frameClosed
       ELSE /\ \E stop \in BOOLEAN : OnCloseBatchBuildWindow(stop)
            /\ UNCHANGED <<m_BatchTarget, m_pBatchBuildDialog, compilerOp,
                           batchJobResult>>
    /\ UNCHANGED <<wireVars, instVars, data_path>>
    /\ UNCHANGED <<inputs, ctl, startupFields, parseFields, queueFields, attachFields,
                   m_BatchExitCode, one_time_only, nFinished, ipcFields, m_Frame,
                   frameShown, s_Loading, clientHist, initHist, cmdHist, firstExit,
                   notifications, closesQueued, exitHist>>

\* the user closes the batch build window
UserCloseDialog ==
    /\ pc = "Running"
    /\ ~frameClosed
    /\ m_pBatchBuildDialog
    /\ \E stop \in BOOLEAN : OnCloseBatchBuildWindow(stop)
    /\ UNCHANGED <<wireVars, instVars, data_path>>
    /\ UNCHANGED <<inputs, ctl, startupFields, parseFields, queueFields, attachFields,
                   m_BatchTarget, m_BatchExitCode, m_pBatchBuildDialog, one_time_only,
                   pendingCalls, compilerOp, nFinished, ipcFields, m_Frame, frameShown,
                   s_Loading, clientHist, initHist, cmdHist, batchHist, exitHist>>

\* the compiler plugin sends cbEVT_COMPILER_FINISHED ("the event comes more
\* than once", line 1074); the sink registered at line 780 calls
\* OnBatchBuildDone with a plugin whose GetExitCode() is code
CompilerFinished ==
    /\ pc = "Running"
    /\ ~frameClosed
    /\ sinkRegistered
    /\ compiler \in {"running", "killed", "finished"}
    /\ nFinished < MaxFinished
    /\ nFinished' = nFinished + 1
    /\ compiler' = "finished"
    /\ \E code \in ExitCodes :
          LET r == BatchBuildDone(m_Batch, one_time_only, m_BatchExitCode,
                                  m_BatchNotify, m_pBatchBuildDialog,
                                  m_BatchWindowAutoClose, code)
          IN  /\ m_BatchExitCode' = r.m_BatchExitCode
              /\ one_time_only' = r.one_time_only
              /\ notifications' = notifications + (IF r.notified THEN 1 ELSE 0)
              /\ closesQueued' = closesQueued + (IF r.closeQueued THEN 1 ELSE 0)
              /\ pendingCalls' = (IF r.closeQueued
                                  THEN Append(pendingCalls, "CloseDialog")
                                  ELSE pendingCalls)
              /\ firstExit' = (IF firstExit = <<>> THEN <<code>> ELSE firstExit)
    /\ UNCHANGED <<wireVars, instVars, data_path>>
    /\ UNCHANGED <<inputs, ctl, startupFields, parseFields, queueFields, attachFields,
                   m_BatchTarget, m_pBatchBuildDialog, compilerOp, ipcFields,
                   frameFields, clientHist, initHist, cmdHist, batchJobResult,
                   exitHist>>

\* the user closes the main frame
UserCloseFrame ==
    /\ pc = "Running"
    /\ frameShown
    /\ ~frameClosed
    /\ frameClosed' = TRUE
    /\ UNCHANGED <<wireVars, instVars, data_path>>
    /\ UNCHANGED <<inputs, ctl, startupFields, parseFields, queueFields, attachFields,
                   batchFields, ipcFields, m_Frame, frameShown, s_Loading, clientHist,
                   initHist, cmdHist, batchHist, exitHist>>

\* the value OnRun returns when it catches an exception, line 936
RunError == -1

\* line 921
RunStatus(batch, exitCode, retval) == IF batch THEN exitCode ELSE retval

\* OnRun, lines 914-922: the main loop ends after the main frame is closed
OnRun_Return ==
    /\ pc = "Running"
    /\ frameClosed
    /\ onRunResult' = <<RunStatus(m_Batch, m_BatchExitCode, 0)>>
    /\ pc' = "OnExit"
    /\ UNCHANGED <<wireVars, instVars, data_path>>
    /\ UNCHANGED <<inputs, endReason, startupFields, parseFields, queueFields,
                   attachFields, batchFields, ipcFields, frameFields, clientHist,
                   initHist, cmdHist, batchHist, onExitResult>>

\* OnRun, lines 923-936: an exception leaves the main loop
OnRun_Exception ==
    /\ pc = "Running"
    /\ onRunResult' = <<RunError>>
    /\ \E kind \in ExceptionKinds : exceptionShown' = Caught(kind).shown
    /\ thrownAt' = pc
    /\ pc' = "OnExit"
    /\ UNCHANGED <<wireVars, instVars, data_path>>
    /\ UNCHANGED <<inputs, endReason, startupFields, parseFields, queueFields,
                   attachFields, batchFields, ipcFields, frameFields, clientHist,
                   xrcLoaded, batchBuild, splashShown, startupDoneSent, sinkRegistered,
                   cmdHist, batchHist, onExitResult>>

\* line 883
ExitStatus(batch, exitCode) == IF batch THEN exitCode ELSE 0

\* OnExit, lines 865-884
OnExit ==
    /\ pc = "OnExit"
    /\ g_DDEServer' = FALSE
    /\ m_pSingleInstance' = FALSE
    /\ conns' = <<>>
    /\ onExitResult' = <<ExitStatus(m_Batch, m_BatchExitCode)>>
    /\ pc' = "Done"
    /\ UNCHANGED <<wireVars, instVars, data_path>>
    /\ UNCHANGED <<inputs, endReason, startupFields, parseFields, queueFields,
                   attachFields, batchFields, serverFrame, nAccepted, nExecuted,
                   frameFields, clientHist, initHist, cmdHist, batchHist, onRunResult>>

Next ==
    \/ OnInit_Begin
    \/ OnInit_ParseCmdLine1
    \/ OnInit_LoadConfig
    \/ OnInit_InitXRC
    \/ OnInit_Connect
    \/ OnInit_SingleInstance
    \/ OnInit_StartServer
    \/ OnInit_Splash
    \/ OnInit_YieldReturn
    \/ OnInit_InitFrame
    \/ OnInit_ParseCmdLine2
    \/ OnInit_BatchStartup
    \/ OnInit_BatchLoad
    \/ OnInit_Script
    \/ OnInit_StartupScript
    \/ OnInit_Show
    \/ OnInit_StartupDone
    \/ OnInit_Finish
    \/ OnInit_FinishEvent
    \/ OnInit_Throw
    \/ OnAcceptConnection
    \/ Execute
    \/ Disconnect
    \/ RunPending
    \/ UserCloseDialog
    \/ CompilerFinished
    \/ UserCloseFrame
    \/ OnRun_Return
    \/ OnRun_Exception
    \/ OnExit

Spec == Init /\ [][Next]_vars

(***************************************************************************)
(* Properties of the application                                           *)
(***************************************************************************)

\* the steps of OnInit after the IPC server block (lines 732-740)
PastStartServer ==
    {"Splash", "SplashYield", "InitFrame", "ParseCmdLine2", "BatchStartup",
     "BatchLoad", "Script", "StartupScript", "Show", "StartupDone", "ShowTips",
     "Finish", "FinishEvent", "Running", "OnExit"}

\* the steps after InitFrame (line 752)
PastInitFrame == PastStartServer \ {"Splash", "SplashYield", "InitFrame"}

\* the steps after frame->Show() (line 823)
PastShow == {"StartupDone", "ShowTips", "Finish", "FinishEvent"}

\* C1: a process whose connection to a running instance succeeds has IPC
\* enabled and is not in batch mode; it has sent one [CmdLine..] message
\* exactly if it has an argument, then [Raise] exactly if raise_via_ipc is
\* set, has disconnected, OnInit has returned false, and it has created no
\* single-instance checker, no IPC server and no main frame.
C1_ForwardsAndExits ==
    connResult = "connected" =>
        /\ m_DDE /\ ~m_Batch /\ cfg.use_ipc
        /\ sent = (IF argv # <<>>
                   THEN << TagCmdLine \o EscapeCmdLine(JoinArgs(argv)) \o TagCWD
                           \o wxGetCwd \o TagEnd >>
                   ELSE <<>>)
                  \o (IF cfg.raise_via_ipc THEN <<TagRaise>> ELSE <<>>)
        /\ clientDisconnected
        /\ pc = "InitFalse" /\ endReason = "forwarded"
        /\ ~m_pSingleInstance /\ ~g_DDEServer /\ ~m_Frame

C1_Witness ==
    /\ connResult = "connected"
    /\ argv # <<>>
    /\ ~cfg.raise_via_ipc
    /\ Len(sent) = 1
    /\ pc = "InitFalse"

\* C2, literally: a process whose connection failed creates its own IPC server
\* and its main frame before OnInit ends.
C2_FailedConnectionCreatesServerAndFrame ==
    (connResult = "failed" /\ pc \in {"InitFalse", "Running"}) =>
        (g_DDEServer /\ m_Frame)

\* C2, with the steps in between: after a failed connection there was
\* exactly one attempt and OnInit goes on with the single-instance check; it ends only because that
\* check finds another instance or because a later step throws; past the
\* server block the IPC server exists, past InitFrame the main frame exists.
C2_FailedConnectionProceeds ==
    connResult = "failed" =>
        /\ connAttempts = 1
        /\ endReason \in {"none", "another", "exception"}
        /\ pc = "InitFalse" => endReason \in {"another", "exception"}
        /\ endReason = "another" => m_pSingleInstance /\ ~g_DDEServer /\ ~m_Frame
        /\ pc \in PastStartServer => g_DDEServer
        /\ pc \in PastInitFrame => m_Frame

C2_Witness ==
    /\ connResult = "failed"
    /\ pc = "Running"
    /\ g_DDEServer
    /\ m_Frame
    /\ connAttempts = 1

\* C6: every acknowledged [CmdLine..] message with non-empty args and cwd has
\* been parsed and announced with cbEVT_APP_CMDLINE.
C6_AcknowledgedCmdLinesAnnounced ==
    cmdLineEvents = ackedCmd

\* C7: once OnInit has finished and every connection has been disconnected,
\* no file queued by an [Open..] message is still waiting to be opened.
C7_QueuedFilesOpened ==
    (pc = "Running" /\ ~frameClosed /\ conns = <<>>) => openPending = {}

\* C8: in a batch run with window auto-close, once BatchJob has returned the
\* main frame is closed, or a build is running, or a call is queued that
\* leads to the close.
C8_BatchRunCloses ==
    (pc = "Running" /\ m_Batch /\ m_BatchWindowAutoClose /\ batchJobResult # <<>>)
        => (frameClosed \/ IsRunning(compiler) \/ pendingCalls # <<>>)

\* C9, literally: in batch mode the status returned by OnRun and by OnExit is
\* the exit code read at the first cbEVT_COMPILER_FINISHED event.
C9_StatusIsFirstExitCode ==
    (m_Batch /\ firstExit # <<>>) =>
        /\ onRunResult # <<>> => onRunResult = firstExit
        /\ onExitResult # <<>> => onExitResult = firstExit

\* C9, with the catch path of OnRun: in batch mode m_BatchExitCode stays the
\* exit code read at the first cbEVT_COMPILER_FINISHED event, at most one notification is shown and
\* at most one dialog close is queued; OnExit returns that code, and so does
\* OnRun unless it caught an exception, when it returns -1.  Outside batch
\* mode OnExit returns 0 and OnBatchBuildDone changes nothing.
C9_BatchStatus ==
    /\ (m_Batch /\ firstExit # <<>>) =>
          /\ m_BatchExitCode = firstExit[1]
          /\ one_time_only
          /\ onExitResult # <<>> => onExitResult = firstExit
          /\ onRunResult # <<>> =>
                IF thrownAt = "Running" THEN onRunResult = <<RunError>>
                ELSE onRunResult = firstExit
    /\ notifications <= 1
    /\ closesQueued <= 1
    /\ (~m_Batch /\ onExitResult # <<>>) => onExitResult = <<0>>
    /\ \A once, notify, dialog, autoClose \in BOOLEAN : \A e, code \in ExitCodes :
          BatchBuildDone(FALSE, once, e, notify, dialog, autoClose, code)
             = [m_BatchExitCode |-> e, one_time_only |-> once,
                notified |-> FALSE, closeQueued |-> FALSE]

C9_Witness ==
    /\ m_Batch
    /\ nFinished = 2
    /\ firstExit = <<1>>
    /\ onRunResult = <<1>>
    /\ onExitResult = <<1>>

\* C10, literally: after an exception in OnInit a message was shown, OnInit
\* returned false, the frame was not shown and cbEVT_APP_STARTUP_DONE was not
\* sent.
C10_ExceptionNothingVisible ==
    thrownAt \in ThrowPoints =>
        /\ exceptionShown # "none"
        /\ pc = "InitFalse"
        /\ ~frameShown
        /\ ~startupDoneSent

\* C10, by the place of the exception: after an exception in OnInit a
\* message was shown and OnInit returned false; the frame was shown exactly if the exception was raised
\* after frame->Show(), and cbEVT_APP_STARTUP_DONE was sent exactly if it was
\* raised in the batch branch after the event was processed.
C10_ExceptionAborts ==
    thrownAt \in ThrowPoints =>
        /\ exceptionShown \in ExceptionKinds
        /\ pc = "InitFalse"
        /\ endReason = "exception"
        /\ frameShown <=> thrownAt \in PastShow
        /\ startupDoneSent <=> thrownAt = "BatchLoad"

C10_Witness ==
    /\ thrownAt = "InitFrame"
    /\ exceptionShown = "const char*"
    /\ pc = "InitFalse"
    /\ ~frameShown
    /\ ~startupDoneSent

(***************************************************************************)
(* Bounded inputs of the wire-format specification                         *)
(***************************************************************************)
MaxPieces    == 3
MaxCwdPieces == 2

ArgSep == <<"|">>
ArgPiece == {<<"(">>, <<")">>, <<BS>>, <<"{">>, <<"}">>, <<"a">>, <<SP>>, <<DQ>>,
             TagCWD, TagEnd}
CwdPiece == {<<"/">>, <<"d">>, <<"(">>, <<")">>, <<BS>>, TagEnd}

SeqsUpTo(S, n) == UNION {[1..k -> S] : k \in 0..n}

RECURSIVE Flatten(_)
Flatten(ps) == IF ps = <<>> THEN <<>> ELSE Head(ps) \o Flatten(Tail(ps))

\* argv[1..argc-1] from a sequence of pieces and argument separators
RECURSIVE ArgvOf(_, _)
ArgvOf(ps, cur) ==
    IF ps = <<>> THEN (IF cur = <<>> THEN <<>> ELSE <<cur>>)
    ELSE IF Head(ps) = ArgSep
         THEN (IF cur = <<>> THEN <<>> ELSE <<cur>>) \o ArgvOf(Tail(ps), <<>>)
         ELSE ArgvOf(Tail(ps), cur \o Head(ps))

ArgvInputs == {ArgvOf(ps, <<>>) : ps \in SeqsUpTo(ArgPiece \cup {ArgSep}, MaxPieces)}
CwdInputs  == {Flatten(ps) : ps \in SeqsUpTo(CwdPiece, MaxCwdPieces)} \ {<<>>}

PlainArgv == <<<<"a">>>>
PlainCwds == {<<"/", "d">>, <<"C", ":", BS, "(", "a", ")">>, <<"/", "d", "}", ")", "]", "x">>}

WireInputs ==
    /\ w_pc = "input"
    /\ \/ w_argv \in ArgvInputs /\ w_cwd \in PlainCwds
       \/ w_argv = PlainArgv /\ w_cwd \in CwdInputs
    /\ w_strData = <<>>
    /\ w_cmdLine = <<>>
    /\ w_rcwd = <<>>
    /\ w_args = <<>>

\* OnInit, lines 686-695: the sender builds and executes the message
W_Forward ==
    /\ w_pc = "input"
    /\ LET cmdLine == JoinArgs(w_argv) IN
       IF cmdLine # <<>>
       THEN /\ w_strData' = CmdLineMessage(cmdLine, w_cwd)
            /\ w_pc' = "sent"
       ELSE /\ w_strData' = <<>>
            /\ w_pc' = "nothing"
    /\ UNCHANGED appVars
    /\ UNCHANGED instVars
    /\ UNCHANGED <<w_argv, w_cwd, w_cmdLine, w_rcwd, w_args>>

\* DDEConnection::OnExecute, lines 156-177: the receiver extracts both parts
W_Execute ==
    /\ w_pc = "sent"
    /\ StartsWith(w_strData, TagCmdLine)
    /\ w_cmdLine' = ExecCmdLine(w_strData)
    /\ w_rcwd' = ExecCwd(w_strData)
    /\ w_pc' = "received"
    /\ UNCHANGED appVars
    /\ UNCHANGED instVars
    /\ UNCHANGED <<w_argv, w_cwd, w_strData, w_args>>

\* DDEConnection::OnExecute, lines 179-182, and ParseCmdLine, lines 1150-1159
W_Parse ==
    /\ w_pc = "received"
    /\ w_cmdLine # <<>> /\ w_rcwd # <<>>
    /\ w_args' = ConvertStringToArgs(w_cmdLine)
    /\ w_pc' = "parsed"
    /\ UNCHANGED appVars
    /\ UNCHANGED instVars
    /\ UNCHANGED <<w_argv, w_cwd, w_strData, w_cmdLine, w_rcwd>>

\* the wire-format specification leaves the application idle
WireInit ==
    /\ WireInputs
    /\ argv = <<>>
    /\ allDebuggers = Debuggers
    /\ CODEBLOCKS_DATA_DIR = <<>>
    /\ cfg = [use_ipc |-> TRUE, raise_via_ipc |-> TRUE, single_instance |-> TRUE,
              show_splash |-> TRUE]
    /\ pc = "off"
    /\ AppFields
    /\ InstOff

WireNext ==
    \/ W_Forward
    \/ W_Execute
    \/ W_Parse

WireSpec == WireInit /\ [][WireNext]_vars

\* C3: the cmdLine that OnExecute extracts and un-escapes is exactly the
\* string the sender built from its arguments before escaping.
C3_CmdLineRoundTrip ==
    w_pc \in {"received", "parsed"} => w_cmdLine = JoinArgs(w_argv)

C3_Witness ==
    /\ w_pc = "received"
    /\ find(JoinArgs(w_argv), TagCWD, 0) # npos
    /\ w_cmdLine = JoinArgs(w_argv)

\* C4: the cwd that OnExecute extracts equals the sender's working directory.
C4_CwdRoundTrip ==
    w_pc \in {"received", "parsed"} => w_rcwd = w_cwd

\* C5: the arguments the receiving parser obtains are argv[1..argc-1] of the
\* sender.
C5_ArgvPreserved ==
    w_pc = "parsed" => w_args = w_argv

(***************************************************************************)
(* Claims about the handlers of the running application                    *)
(***************************************************************************)

\* C11: every failure case of AttachDebugger logs an error and calls neither
\* SetActiveConfig nor AttachToProcess; an attach is made only on the first
\* plugin whose settings name is the part before the first ':', with the index
\* of its first configuration named as the part after it, for the process
\* given; and OnInit does not return false because of AttachDebugger.
C11_AttachFailuresNonFatal ==
    attachLast # <<>> =>
       LET r == attachLast[1]
           a == r.attach
           c == r.config
           pos == find(c, <<":">>, 0)
           named == {i \in 1..Len(allDebuggers) :
                        allDebuggers[i].name = SubSeq(c, 1, pos)}
           first == CHOOSE i \in named : \A j \in named : i <= j
           failure ==
              \/ (a = <<>>) # (c = <<>>)
              \/ /\ a # <<>>
                 /\ c # <<>>
                 /\ \/ pos = npos
                    \/ pos = 0
                    \/ allDebuggers = <<>>
                    \/ named = {}
                    \/ \A k \in 1..Len(allDebuggers[first].configs) :
                          allDebuggers[first].configs[k] # SubSeq(c, pos + 2, Len(c))
       IN  /\ failure => r.error # "none" /\ r.call = <<>>
           /\ r.call # <<>> =>
                 LET d == allDebuggers[r.call[1].plugin] IN
                 /\ ~failure
                 /\ r.error = "none"
                 /\ d.name = SubSeq(c, 1, pos)
                 /\ \A i \in 1..(r.call[1].plugin - 1) :
                       allDebuggers[i].name # d.name
                 /\ d.configs[r.call[1].configIndex + 1] = SubSeq(c, pos + 2, Len(c))
                 /\ \A k \in 1..r.call[1].configIndex :
                       d.configs[k] # SubSeq(c, pos + 2, Len(c))
                 /\ r.call[1].process = a
           /\ pc = "InitFalse" => endReason = "exception" /\ thrownAt = "FinishEvent"

\* a failed attach (no configuration of that name) after which startup completed
C11_Witness ==
    /\ attachLast # <<>>
    /\ attachLast[1].error = "config-not-found"
    /\ attachLast[1].call = <<>>
    /\ pc = "Running"

\* C12: OnInit of a process started with --multiple-instance does not end
\* because another instance was detected, neither by the IPC client block
\* (line 706) nor by the single-instance check (line 728).
C12_MultipleInstanceStarts ==
    Found(argv, OptName.multiple) => endReason \notin {"forwarded", "another"}

(***************************************************************************)
(* Concurrent startups of one user: lines 673-752 of OnInit in each        *)
(* process, with the single-instance lock and the IPC server they share    *)
(***************************************************************************)
NumProcs == 2    \* processes started concurrently

\* the options of a process started without --no-dde and without a batch
\* switch (m_DDE true, m_Batch false)
ProcInputs ==
    [multiple : BOOLEAN, single_instance : BOOLEAN, use_ipc : BOOLEAN]

InstInit ==
    /\ \E in \in [1..NumProcs -> ProcInputs] :
          procs = [p \in 1..NumProcs |->
                      [pc |-> "Connect", multiple |-> in[p].multiple,
                       single_instance |-> in[p].single_instance,
                       use_ipc |-> in[p].use_ipc, m_pSingleInstance |-> FALSE,
                       g_DDEServer |-> FALSE, m_Frame |-> FALSE,
                       endReason |-> "none"]]
    /\ lockOwner = 0
    /\ argv = <<>>
    /\ cfg = [use_ipc |-> TRUE, raise_via_ipc |-> TRUE, single_instance |-> TRUE,
              show_splash |-> TRUE]
    /\ allDebuggers = Debuggers
    /\ CODEBLOCKS_DATA_DIR = <<>>
    /\ pc = "off"
    /\ AppFields
    /\ WireOff

\* lines 673-714: MakeConnection can succeed only if another process of the
\* user has created its server
I_Connect ==
    \E p \in 1..NumProcs :
       /\ procs[p].pc = "Connect"
       /\ \E connection \in
               (IF /\ ClientWanted(TRUE, FALSE, procs[p].use_ipc)
                   /\ \E q \in 1..NumProcs : q # p /\ procs[q].g_DDEServer
                THEN BOOLEAN ELSE {FALSE}) :
             procs' = [procs EXCEPT
                         ![p].pc = IF connection THEN "InitFalse" ELSE "SingleInstance",
                         ![p].endReason = IF connection THEN "forwarded" ELSE @]
       /\ UNCHANGED lockOwner
       /\ UNCHANGED <<appVars, wireVars>>

\* lines 716-730: the constructor of wxSingleInstanceChecker takes the lock if
\* it is free; IsAnotherRunning() tells whether it was held by another process
I_SingleInstance ==
    \E p \in 1..NumProcs :
       /\ procs[p].pc = "SingleInstance"
       /\ IF CheckerWanted(procs[p].single_instance, procs[p].multiple)
          THEN IF lockOwner = 0
               THEN /\ lockOwner' = p
                    /\ procs' = [procs EXCEPT ![p].pc = "StartServer",
                                              ![p].m_pSingleInstance = TRUE]
               ELSE /\ UNCHANGED lockOwner
                    /\ procs' = [procs EXCEPT ![p].pc = "InitFalse",
                                              ![p].m_pSingleInstance = TRUE,
                                              ![p].endReason = "another"]
          ELSE /\ UNCHANGED lockOwner
               /\ procs' = [procs EXCEPT ![p].pc = "StartServer"]
       /\ UNCHANGED <<appVars, wireVars>>

\* lines 732-737
I_StartServer ==
    \E p \in 1..NumProcs :
       /\ procs[p].pc = "StartServer"
       /\ procs' = [procs EXCEPT ![p].pc = "InitFrame",
                                 ![p].g_DDEServer = ServerWanted(TRUE, FALSE)]
       /\ UNCHANGED lockOwner
       /\ UNCHANGED <<appVars, wireVars>>

\* lines 748-752; the rest of OnInit creates nothing the processes share
I_InitFrame ==
    \E p \in 1..NumProcs :
       /\ procs[p].pc = "InitFrame"
       /\ procs' = [procs EXCEPT ![p].pc = "Running", ![p].m_Frame = TRUE]
       /\ UNCHANGED lockOwner
       /\ UNCHANGED <<appVars, wireVars>>

\* lines 849-862: an exception ends OnInit and with it the process, whose
\* server, windows and lock go with it
I_Throw ==
    \E p \in 1..NumProcs :
       /\ procs[p].pc \in {"InitFrame", "Running"}
       /\ procs' = [procs EXCEPT ![p].pc = "InitFalse", ![p].g_DDEServer = FALSE,
                                 ![p].m_Frame = FALSE, ![p].endReason = "exception"]
       /\ lockOwner' = IF lockOwner = p THEN 0 ELSE lockOwner
       /\ UNCHANGED <<appVars, wireVars>>

\* OnRun and OnExit, lines 865-884: the main frame is closed, then the server
\* and the checker are deleted
I_Exit ==
    \E p \in 1..NumProcs :
       /\ procs[p].pc = "Running"
       /\ procs' = [procs EXCEPT ![p].pc = "Done", ![p].g_DDEServer = FALSE,
                                 ![p].m_Frame = FALSE, ![p].m_pSingleInstance = FALSE]
       /\ lockOwner' = IF lockOwner = p THEN 0 ELSE lockOwner
       /\ UNCHANGED <<appVars, wireVars>>

InstNext ==
    \/ I_Connect
    \/ I_SingleInstance
    \/ I_StartServer
    \/ I_InitFrame
    \/ I_Throw
    \/ I_Exit

InstSpec == InstInit /\ [][InstNext]_vars

\* C13: a process that makes the single-instance check while another holds
\* the lock ends OnInit with reason "another" having created neither server
\* nor frame; and of the processes started with single_instance and without
\* --multiple-instance at most one has a main frame in any state.
C13_SingleInstance ==
    /\ \A p \in DOMAIN procs :
          procs[p].endReason = "another" =>
             /\ procs[p].pc = "InitFalse"
             /\ procs[p].single_instance /\ ~procs[p].multiple
             /\ ~procs[p].g_DDEServer /\ ~procs[p].m_Frame
             /\ lockOwner # p
    /\ \A p, q \in DOMAIN procs :
          /\ p # q
          /\ procs[p].single_instance /\ ~procs[p].multiple
          /\ procs[q].single_instance /\ ~procs[q].multiple
          => ~(procs[p].m_Frame /\ procs[q].m_Frame)

\* one process has its frame, the other was turned away by the check
C13_Witness ==
    \E p, q \in DOMAIN procs :
       /\ procs[p].single_instance /\ ~procs[p].multiple
       /\ procs[p].m_Frame
       /\ procs[q].endReason = "another"

\* C14, with the path made absolute: once LoadConfig has returned true the
\* data path written is <base>/share/codeblocks, prefixed with the working
\* directory if relative, where base is the --prefix value if non-empty, else
\* CODEBLOCKS_DATA_DIR if non-empty, else the built-in value; if LoadConfig
\* returned false (--user-data-dir could not be set) nothing was written.
C14_DataPath ==
    LET prefix == FoundValue(argv, OptName.prefix, <<>>)
        base == IF prefix # <<>> THEN prefix
                ELSE IF CODEBLOCKS_DATA_DIR # <<>> THEN CODEBLOCKS_DATA_DIR
                ELSE GetAppPath
        path == base \o <<"/", "s", "h", "a", "r", "e", "/">>
                     \o <<"c", "o", "d", "e", "b", "l", "o", "c", "k", "s">>
    IN  /\ data_path # <<>> =>
              data_path[1] = IF Head(path) = "/" THEN path
                             ELSE wxGetCwd \o <<"/">> \o path
        /\ endReason = "config" =>
              data_path = <<>> /\ FoundValue(argv, OptName.userdata, <<>>) # <<>>
        /\ (xrcLoaded \/ m_Frame) => data_path # <<>>

\* --prefix and the environment variable both given, the prefix was taken
C14_Witness ==
    /\ FoundValue(argv, OptName.prefix, <<>>) = <<"/", "p">>
    /\ CODEBLOCKS_DATA_DIR = <<"/", "e">>
    /\ data_path # <<>>
    /\ pc = "Running"

\* C14, literally: the data path written is <base>/share/codeblocks.
C14_DataPathIsBasePlusShare ==
    LET prefix == FoundValue(argv, OptName.prefix, <<>>)
        base == IF prefix # <<>> THEN prefix
                ELSE IF CODEBLOCKS_DATA_DIR # <<>> THEN CODEBLOCKS_DATA_DIR
                ELSE GetAppPath
    IN  data_path # <<>> =>
           data_path[1] = base \o <<"/", "s", "h", "a", "r", "e", "/">>
                               \o <<"c", "o", "d", "e", "b", "l", "o", "c", "k", "s">>

\* C15: after LoadDelayedFiles has handled the auto-file S of the command
\* line (no parameters, no server): if the text after the last ':' of S is an
\* integer N, the part before it was opened (nothing if it is empty) and the
\* only jump made is GotoLine(N-1); otherwise the whole S was opened and no
\* jump was made; and m_AutoFile is empty.
C15_FileLine ==
    LET S == FoundValue(argv, OptName.file, <<>>)
        pos == FindLast(S, ":")
        after == SubSeq(S, pos + 2, Len(S))
        before == SubSeq(S, 1, pos)
        abs(f) == IF Head(f) = "/" THEN f ELSE wxGetCwd \o <<"/">> \o f
    IN  (/\ S # <<>>
         /\ Found(argv, OptName.nodde)
         /\ Params(argv) = <<>>
         /\ pc \in {"FinishEvent", "Running"})
        => /\ m_AutoFile = <<>>
           /\ IF pos # npos /\ IsNumber(after)
              THEN /\ opened = (IF before # <<>> THEN <<abs(before)>> ELSE <<>>)
                   /\ gotoLines \in {<<>>, <<ToLong(after) - 1>>}
                   /\ before = <<>> => gotoLines = <<>>
              ELSE /\ opened = <<abs(S)>>
                   /\ gotoLines = <<>>

\* C16, with the target 'ask' and the order of the files: a BatchJob that
\* returned -1 or -3 started nothing; one that showed the batch build dialog
\* started exactly the operation rebuild if --rebuild, else build if --build,
\* else clean, at project level if a project file stands before the first
\* workspace file of the command line and at workspace level otherwise, on the
\* target --target, or, if that is 'ask' and --clean is not given, on the
\* target the user selected (none without an active project).
C16_BatchJob ==
    LET prm == Params(argv)
        ws == {i \in 1..Len(prm) : FileTypeOf(prm[i]) = "ftCodeBlocksWorkspace"}
        project == \E i \in 1..Len(prm) :
                      /\ FileTypeOf(prm[i]) = "ftCodeBlocksProject"
                      /\ \A j \in ws : i < j
        op == IF Found(argv, OptName.rebuild) THEN "Rebuild"
              ELSE IF Found(argv, OptName.build) THEN "Build"
              ELSE IF Found(argv, OptName.clean) THEN "Clean" ELSE "none"
        target == FoundValue(argv, OptName.target, <<>>)
    IN  /\ batchJobResult \in {<<-1>>, <<-3>>}
           => compilerOp = "none" /\ compiler = "idle" /\ ~m_pBatchBuildDialog
        /\ batchJobResult = <<-1>> => ~m_Batch
        /\ compilerOp # "none" => batchJobResult = <<0>> /\ m_pBatchBuildDialog
        /\ (batchJobResult = <<0>> /\ m_pBatchBuildDialog)
           => /\ compilerOp = IF project THEN op
                              ELSE IF ws # {} THEN
                                 (CASE op = "Rebuild" -> "RebuildWorkspace"
                                    [] op = "Build" -> "BuildWorkspace"
                                    [] op = "Clean" -> "CleanWorkspace"
                                    [] OTHER -> "none")
                              ELSE "none"
              /\ IF Lower(target) = Ask /\ ~Found(argv, OptName.clean)
                 THEN m_BatchTarget \in {TargetTitle, <<>>}
                 ELSE m_BatchTarget = target

\* a workspace-level rebuild was started on the target the user selected
C16_Witness ==
    /\ batchJobResult = <<0>>
    /\ compilerOp = "RebuildWorkspace"
    /\ m_BatchTarget = TargetTitle
    /\ compiler = "running"

\* C16, literally: the operation started is on the target --target, and it is
\* the project-level one whenever a project file was given.
C16_TargetAndLevelAsGiven ==
    LET prm == Params(argv)
        project == \E i \in 1..Len(prm) : FileTypeOf(prm[i]) = "ftCodeBlocksProject"
    IN  compilerOp # "none"
        => /\ m_BatchTarget = FoundValue(argv, OptName.target, <<>>)
           /\ project <=> compilerOp \in {"Rebuild", "Build", "Clean"}

\* C17: with --no-batch-window-close no Close of the batch build dialog is
\* ever queued; without it exactly one is queued, by the first
\* compiler-finished event; the step of the handler only appends the call to
\* the queue of the event loop and closes nothing, and the queued Close runs
\* in a later step of the main loop.
C17_BatchWindowClose ==
    /\ [](/\ Found(argv, OptName.nowinclose)
             => closesQueued = 0 /\ \A i \in 1..Len(pendingCalls) :
                                       pendingCalls[i] # "CloseDialog"
          /\ ~Found(argv, OptName.nowinclose)
             => closesQueued = (IF nFinished > 0 THEN 1 ELSE 0))
    /\ [][/\ nFinished' # nFinished
             => /\ frameClosed' = frameClosed
                /\ pendingCalls' = IF closesQueued' # closesQueued
                                   THEN Append(pendingCalls, "CloseDialog")
                                   ELSE pendingCalls
          /\ (/\ pendingCalls # <<>>
              /\ Head(pendingCalls) = "CloseDialog"
              /\ pendingCalls' = Tail(pendingCalls))
             => nFinished' = nFinished /\ one_time_only]_vars

\* two compiler-finished events have been handled, one Close is waiting
C17_Witness ==
    /\ nFinished = 2
    /\ closesQueued = 1
    /\ pendingCalls = <<"CloseDialog">>
    /\ ~frameClosed

\* C18: from the first ParseCmdLine of OnInit (line 649) up to the second
\* (line 763) m_Batch is true iff one of --build, --rebuild, --clean was
\* given; after the second it is true iff, in addition, at least one parameter
\* of the command line is a project or workspace file.
C18_BatchFlag ==
    LET switch == \/ Found(argv, OptName.build)
                  \/ Found(argv, OptName.rebuild)
                  \/ Found(argv, OptName.clean)
        prm == Params(argv)
        buildable == \E i \in 1..Len(prm) :
                        FileTypeOf(prm[i]) \in {"ftCodeBlocksProject",
                                                "ftCodeBlocksWorkspace"}
    IN  /\ pc \in {"LoadConfig", "InitXRC", "Connect", "SingleInstance",
                   "StartServer", "Splash", "SplashYield", "InitFrame",
                   "ParseCmdLine2"}
           => (m_Batch <=> switch)
        /\ pc \in {"BatchStartup", "BatchLoad", "Script", "StartupScript", "Show",
                   "StartupDone", "ShowTips", "Finish", "FinishEvent", "Running",
                   "OnExit", "Done"}
           => (m_Batch <=> switch /\ buildable)

\* --build without anything to build: batch mode after the first parse only
C18_Witness ==
    /\ Found(argv, OptName.build)
    /\ pc = "StartupScript"
    /\ ~m_Batch
    /\ batchBuild = "true"

\* C19, with the case of no attempt: a client connection is attempted at most
\* once and only while the process has no server; where the server exists,
\* m_DDE is set, the first parse selected no batch mode, and the attempt, made
\* exactly if use_ipc is set, has failed.
C19_HandshakeOrder ==
    /\ [](/\ connAttempts <= 1
          /\ g_DDEServer
             => /\ m_DDE
                /\ ~Found(argv, OptName.nodde)
                /\ ~(\/ Found(argv, OptName.build)
                     \/ Found(argv, OptName.rebuild)
                     \/ Found(argv, OptName.clean))
                /\ connResult = (IF cfg.use_ipc THEN "failed" ELSE "none")
                /\ connAttempts = (IF cfg.use_ipc THEN 1 ELSE 0))
    /\ [][connAttempts' # connAttempts => ~g_DDEServer /\ ~g_DDEServer']_vars

\* the server of a process whose connection attempt failed
C19_Witness ==
    /\ g_DDEServer
    /\ connResult = "failed"
    /\ connAttempts = 1
    /\ pc = "Running"

\* C19, literally: where the process has its own IPC server, its client
\* connection attempt has finished and failed.
C19_ServerOnlyAfterFailedAttempt ==
    g_DDEServer => connResult = "failed"

\* C20: every step in which LoadDelayedFiles passes a file to MainFrame::Open
\* is made with s_Loading false and the main frame created; and a step in
\* which a connection is disconnected while s_Loading is true, or which
\* disconnects a connection built without a frame, opens nothing and leaves
\* the queue and the auto-file as they are.
C20_NoOpenWhileLoading ==
    [][/\ opened' # opened => ~s_Loading' /\ m_Frame /\ m_Frame'
       /\ (/\ pc' = pc
           /\ Len(conns') = Len(conns) - 1
           /\ \/ s_Loading
              \/ \E i \in 1..Len(conns) : ~conns[i] /\ conns' = RemoveAt(conns, i))
          => UNCHANGED <<opened, gotoLines, m_DelayedFilesToOpen, m_AutoFile>>]_vars

\* a file queued over IPC is still queued: its connection was disconnected
\* while the application was loading, with the main frame already there
C20_Witness ==
    /\ argv = <<>>
    /\ pc = "ShowTips"
    /\ s_Loading
    /\ m_Frame
    /\ conns = <<>>
    /\ m_DelayedFilesToOpen # <<>>
    /\ opened = <<>>

\* C21: in every step in which LoadDelayedFiles runs (lines 782 and 834 of
\* OnInit, and OnDisconnect with s_Loading false on a connection that has a
\* frame), every path is passed to MainFrame::Open once if it is in
\* m_DelayedFilesToOpen, however many entries of the queue name it, once more
\* if it is the path of the auto-file, and not at all otherwise; the queue is
\* empty afterwards; and with an empty queue and no auto-file the step opens
\* nothing.
C21_LoadDelayedFilesOnce ==
    [][LET loads == \/ pc = "BatchLoad" /\ pc' = "Running"
                    \/ pc = "Finish" /\ pc' = "FinishEvent"
                    \/ /\ pc' = pc
                       /\ ~s_Loading
                       /\ \E i \in 1..Len(conns) :
                             conns[i] /\ conns' = RemoveAt(conns, i)
           new   == SubSeq(opened', Len(opened) + 1, Len(opened'))
           times(p) == Cardinality({k \in 1..Len(new) : new[k] = p})
           auto  == LoadDelayedFiles(<<>>, m_AutoFile, TRUE).opens
       IN  loads =>
             /\ m_DelayedFilesToOpen' = <<>>
             /\ Len(opened') >= Len(opened)
             /\ SubSeq(opened', 1, Len(opened)) = opened
             /\ \A p \in Range(new) \cup Range(m_DelayedFilesToOpen) \cup Range(auto) :
                   times(p) = (IF p \in Range(m_DelayedFilesToOpen) THEN 1 ELSE 0)
                              + (IF p \in Range(auto) THEN 1 ELSE 0)
             /\ (m_DelayedFilesToOpen = <<>> /\ m_AutoFile = <<>>)
                   => opened' = opened]_vars

\* the file named twice on the command line was queued twice and has been
\* opened once
C21_Witness ==
    /\ argv = <<A_dbg.nodde, A_f, A_f>>
    /\ pc = "Running"
    /\ opened = <<F_f>>
    /\ m_DelayedFilesToOpen = <<>>

\* C22: in every step in which ParseCmdLine runs with a frame (line 761 of
\* OnInit with argv, or OnExecute with the command line of a [CmdLine..]
\* message) and a parameter is a workspace file, m_DelayedFilesToOpen holds
\* afterwards exactly the full path of the first such parameter, whatever was
\* queued before, and the parameters after it are not looked at: m_HasProject
\* is set only for a project file in front of it.
C22_OneWorkspace ==
    [][LET onInit == pc = "ParseCmdLine2" /\ pc' \in {"BatchStartup", "Script", "StartupScript"}
           onExec == cmdLineEvents' = cmdLineEvents + 1
           args   == IF onInit THEN argv
                     ELSE cmdLineEvent'[1].args
           CWD    == IF onInit THEN <<>> ELSE cmdLineEvent'[1].cwd
           params == Params(args)
           isWs(k) == FileTypeOf(params[k]) = "ftCodeBlocksWorkspace"
       IN  (onInit \/ onExec) =>
             \A k \in 1..Len(params) :
                (isWs(k) /\ \A j \in 1..(k - 1) : ~isWs(j)) =>
                   /\ m_HasWorkSpace'
                   /\ m_DelayedFilesToOpen' = <<MakeAbsolute(params[k], CWD)>>
                   /\ m_HasProject' = \E j \in 1..(k - 1) :
                                         FileTypeOf(params[j]) = "ftCodeBlocksProject"]_vars

\* the command line "--build f w.workspace g" arrived over IPC after
\* [Open("/d/g")]: only the workspace is queued
C22_Witness ==
    /\ nExecuted = 2
    /\ F_g \in openPending
    /\ cmdLineEvent # <<>>
    /\ Params(cmdLineEvent[1].args) = <<A_f, A_workspace, <<"g">> >>
    /\ m_DelayedFilesToOpen = <<wxGetCwd \o <<"/">> \o A_workspace>>

\* C23: every step in which AttachDebugger runs (line 835 of OnInit, or
\* OnDisconnect with s_Loading false on a connection that has a frame) leaves
\* m_DebuggerAttach and m_DebuggerConfig empty; AttachToProcess is called only
\* in such a step, at most once, for the process in m_DebuggerAttach, with
\* both fields non-empty before the step; and a field gets a non-empty value
\* only from a command line that carries the option, parsed in that step. So
\* after an attach the next one needs a command line with new parameters.
C23_AttachParametersUsedOnce ==
    [][LET attachStep ==
              \/ pc = "Finish" /\ pc' = "FinishEvent"
              \/ /\ pc' = pc
                 /\ ~s_Loading
                 /\ \E i \in 1..Len(conns) : conns[i] /\ conns' = RemoveAt(conns, i)
           args == IF pc \in {"ParseCmdLine1", "ParseCmdLine2"} /\ pc' # pc THEN argv
                   ELSE IF cmdLineEvents' = cmdLineEvents + 1
                   THEN cmdLineEvent'[1].args
                   ELSE <<>>
       IN  /\ attachStep => m_DebuggerAttach' = <<>> /\ m_DebuggerConfig' = <<>>
           /\ attachCalls' # attachCalls =>
                 /\ attachStep
                 /\ m_DebuggerAttach # <<>>
                 /\ m_DebuggerConfig # <<>>
                 /\ Len(attachCalls') = Len(attachCalls) + 1
                 /\ SubSeq(attachCalls', 1, Len(attachCalls)) = attachCalls
                 /\ attachCalls'[Len(attachCalls')].process = m_DebuggerAttach
           /\ (m_DebuggerAttach' # m_DebuggerAttach /\ m_DebuggerAttach' # <<>>)
                 => FoundValue(args, OptName.dbgattach, <<>>) = m_DebuggerAttach'
           /\ (m_DebuggerConfig' # m_DebuggerConfig /\ m_DebuggerConfig' # <<>>)
                 => FoundValue(args, OptName.dbgconfig, <<>>) = m_DebuggerConfig']_vars

\* one attach was made for a forwarded --dbg-attach/--dbg-config pair; a later
\* connection brought a command line without attach parameters, and the
\* AttachDebugger of its disconnect found both fields empty
C23_Witness ==
    /\ argv = <<>>
    /\ pc = "Running"
    /\ conns = <<>>
    /\ cmdLineEvents = 2
    /\ ~HasValue(cmdLineEvent[1].args, OptName.dbgattach)
    /\ ~HasValue(cmdLineEvent[1].args, OptName.dbgconfig)
    /\ Len(attachCalls) = 1
    /\ attachLast = <<[attach |-> <<>>, config |-> <<>>, call |-> <<>>, error |-> "none"]>>

\* C24: in every state in which the IPC server of the process exists, m_Batch
\* is false, and so are m_Build, m_ReBuild and m_Clean, whatever command
\* lines were forwarded to it.
C24_ServerNeverBatch ==
    g_DDEServer => ~m_Batch /\ ~m_Build /\ ~m_ReBuild /\ ~m_Clean

\* the server has parsed the forwarded command line "--build f w.workspace g"
C24_Witness ==
    /\ g_DDEServer
    /\ cmdLineEvent # <<>>
    /\ Found(cmdLineEvent[1].args, OptName.build)
    /\ m_HasWorkSpace
    /\ ~m_Batch

\* C25: while the main frame is shown on the interactive path of OnInit (after
\* line 823, m_Batch false and no script), the earlier steps of that OnInit
\* were those of an interactive start: InitXRCStuff loaded the resources,
\* Manager::SetBatchBuild was given false, the IPC server exists if IPC is
\* enabled, and a client connection was attempted if use_ipc is set as well.
C25_StartupModeConsistent ==
    (frameShown /\ pc \in PastShow \cup {"Running"} /\ ~m_Batch /\ m_Script = <<>>) =>
       /\ xrcLoaded
       /\ batchBuild = "false"
       /\ m_DDE => g_DDEServer
       /\ (m_DDE /\ cfg.use_ipc) => connAttempts = 1

\* C26: after every ParseCmdLine with a frame (line 761 of OnInit, or OnExecute
\* for a forwarded command line) m_HasProject is true only if the queue holds
\* the full path of a project file of that command line, and m_HasWorkSpace
\* only if the queue is exactly one workspace file; and BatchJob starts a
\* project-level operation only when LoadDelayedFiles has opened a project
\* file.
C26_FlagsAgreeWithQueue ==
    [][LET onInit == pc = "ParseCmdLine2" /\ pc' \in {"BatchStartup", "Script", "StartupScript"}
           onExec == cmdLineEvents' = cmdLineEvents + 1
           args   == IF onInit THEN argv
                     ELSE cmdLineEvent'[1].args
           CWD    == IF onInit THEN <<>> ELSE cmdLineEvent'[1].cwd
           params == Params(args)
           queue  == m_DelayedFilesToOpen'
       IN  /\ (onInit \/ onExec) =>
                /\ m_HasProject' =>
                      \E k \in 1..Len(params) :
                         /\ FileTypeOf(params[k]) = "ftCodeBlocksProject"
                         /\ MakeAbsolute(params[k], CWD) \in Range(queue)
                /\ m_HasWorkSpace' =>
                      /\ Len(queue) = 1
                      /\ FileTypeOf(queue[1]) = "ftCodeBlocksWorkspace"
           /\ (compilerOp' # compilerOp /\ compilerOp' \in {"Rebuild", "Build", "Clean"}) =>
                \E k \in 1..Len(opened) : FileTypeOf(opened[k]) = "ftCodeBlocksProject"]_vars

\* C27: every step in which ParseCmdLine runs with a frame (line 761 of OnInit,
\* or OnExecute for a forwarded command line) leaves m_Prefix, m_UserDataDir,
\* m_DDE, m_SafeMode, m_Splash, m_Build, m_ReBuild, m_Clean, m_BatchTarget,
\* m_BatchNotify, m_BatchWindowAutoClose, m_Script, the personality and the
\* application logger as they were, and the other fields of the application
\* too, except m_HasProject, m_HasWorkSpace, m_Batch, m_AutoFile, the
\* delayed-open queue and the debugger-attach parameters.
C27_FrameParseKeepsStartupSettings ==
    [][LET onInit == pc = "ParseCmdLine2" /\ pc' \in {"BatchStartup", "Script", "StartupScript"}
           onExec == cmdLineEvents' = cmdLineEvents + 1
       IN  (onInit \/ onExec) =>
              /\ UNCHANGED <<m_Prefix, m_UserDataDir, m_DDE, m_SafeMode, m_Splash,
                             m_Build, m_ReBuild, m_Clean, m_BatchTarget, m_BatchNotify,
                             m_BatchWindowAutoClose, m_Script, personality, app_log>>
              /\ UNCHANGED <<m_BatchExitCode, m_pBatchBuildDialog, m_pSingleInstance,
                             m_Frame, g_DDEServer, s_Loading, one_time_only,
                             data_path>>]_vars

\* the running instance has parsed the forwarded command line
\* "--prefix=/x --user-data-dir=/y --no-dde --safe-mode f" and still has its
\* own settings
C27_Witness ==
    /\ argv = <<>>
    /\ cmdLineEvent # <<>>
    /\ LET args == cmdLineEvent[1].args IN
       /\ Found(args, OptName.nodde)
       /\ Found(args, OptName.safemode)
       /\ HasValue(args, OptName.prefix)
       /\ HasValue(args, OptName.userdata)
    /\ F_f \in Range(m_DelayedFilesToOpen)
    /\ m_DDE
    /\ ~m_SafeMode
    /\ m_Prefix = <<>>
    /\ m_UserDataDir = <<>>

\* C28: every OnExecute step for a message that cannot be used leaves the
\* delayed-open queue, m_AutoFile, m_HasProject, m_HasWorkSpace, m_Batch and
\* the debugger-attach parameters as they were, opens nothing and sends no
\* cbEVT_APP_CMDLINE; it returns false for [IfExec_Open(" and for an unknown
\* tag (with the warning only for the latter) and true for a [CmdLine({
\* message without CWD marker or terminator, with an empty cmdLine or cwd, or
\* on a connection that has no frame.
C28_UnusableMessagesChangeNothing ==
    [][nExecuted' = nExecuted + 1 =>
          \A i \in 1..Len(conns) : \A m \in ClientMessages :
             LET isCmdLine == StartsWith(m, TagCmdLine)
                 isIfExec  == StartsWith(m, TagIfExec)
                 known     == \E t \in {TagIfExec, TagOpen, TagOpenLine, TagRaise, TagCmdLine} :
                                 StartsWith(m, t)
             IN  (/\ \/ m \in UnusableMessages
                     \/ isCmdLine /\ ~conns[i]
                  /\ OnExecute(i, m))
                 => /\ UNCHANGED <<m_DelayedFilesToOpen, m_AutoFile, m_HasProject,
                                   m_HasWorkSpace, m_Batch, m_DebuggerAttach,
                                   m_DebuggerConfig, opened, gotoLines, cmdLineEvents,
                                   cmdLineEvent>>
                    /\ execResult' = <<[ret |-> ~isIfExec /\ known,
                                        warning |-> ~known]>>]_vars

\* a message with an unknown tag was answered with false and the warning,
\* while a file queued by an earlier [Open..] is still waiting
C28_Witness ==
    /\ nExecuted = 2
    /\ execResult = <<[ret |-> FALSE, warning |-> TRUE]>>
    /\ m_DelayedFilesToOpen = <<F_f>>
    /\ cmdLineEvents = 0

=============================================================================
